---- MODULE Spec2Model ----
(***************************************************************************)
(* crabmancake: the asset cache's fetch pipeline (assets/asset_cache.rs,   *)
(* assets/asset.rs, assets/config.rs) and the renderable resolver          *)
(* (graphics/renderer/renderable.rs), as state machines.                   *)
(***************************************************************************)
EXTENDS Integers, Sequences, FiniteSets, TLC

\* ------------------------------------------------------------------ bounds

\* Number of request_asset calls (spawned fetch_asset tasks) in a run.
NumPipelines == 2

Pipelines == 1..NumPipelines

\* Number of those tasks that run while the renderer is watched (SpecResolver).
NumLoaders == 1

Loaders == {p \in Pipelines : p <= NumLoaders}

\* ------------------------------------------------------------- sequences

Range(s) == {s[i] : i \in 1..Len(s)}

\* Body applied to the value of v (v is evaluated once, before Body).
With(v, Body(_)) == CHOOSE y \in {Body(x) : x \in {v}} : TRUE

\* ------------------------------------------------------------ the server

\* What the HTTP server holds: manifests by url, files by name.
ConfigUrls == {"a.json", "a2.json", "b.json", "c.json", "d.json"}

GltfModel(name, root, prompt, deferrable, render) ==
    [name |-> name, type |-> "gltf_model", gl_root |-> root,
     prompt_files |-> prompt, deferrable_files |-> deferrable,
     render_type |-> render]

GlbModel(name, root, render) ==
    [name |-> name, type |-> "glb_model", gl_root |-> root,
     prompt_files |-> << >>, deferrable_files |-> << >>,
     render_type |-> render]

\* The manifest the server answers for a url (two manifests share the name "a"; the
\* manifest at d.json was not written by the build: a glb_model whose root is d.gltf).
ServerConfig(u) ==
    CASE u = "a.json"  -> GltfModel("a", "a.gltf", <<"x.bin">>, <<"t.png">>, "Basic")
      [] u = "a2.json" -> GltfModel("a", "a.gltf", << >>, <<"y.bin">>, "NoRender")
      [] u = "b.json"  -> GlbModel("b", "b.glb", "Basic")
      [] u = "c.json"  -> GltfModel("c", "c.gltf", <<"x.bin", "t.png">>, <<"z.bin">>, "Basic")
      [] u = "d.json"  -> GlbModel("d", "d.gltf", "Basic")

AssetNames == {ServerConfig(u).name : u \in ConfigUrls}

\* The bytes the server answers for a file name.
FileBytes(f) ==
    CASE f = "a.gltf" -> <<1>>
      [] f = "c.gltf" -> <<2>>
      [] f = "b.glb"  -> <<3>>
      [] f = "d.gltf" -> <<4>>
      [] f = "x.bin"  -> <<10, 11, 12, 13>>
      [] f = "y.bin"  -> <<20, 21>>
      [] f = "z.bin"  -> <<30>>
      [] f = "t.png"  -> <<80, 1, 1, 7>>
      [] OTHER        -> << >>

\* ---------------------------------------------------------------- Config

\* The file-name stems of the server's scene files.
Stems == {"a", "b", "c", "d"}

\* str::ends_with, for names made of a stem and an extension.
ends_with(s, suffix) == \E stem \in Stems : s = stem \o suffix

\* The asserts of the build script on a manifest of the assets directory.
verify_config_contents(config) ==
    IF config.type = "gltf_model"
    THEN ends_with(config.gl_root, ".gltf")
    ELSE ends_with(config.gl_root, ".glb")

get_file_lists(config) ==
    IF config.type = "gltf_model"
    THEN <<config.gl_root>> \o config.prompt_files \o config.deferrable_files
    ELSE <<config.gl_root>>

\* Faulty variant: the root is pushed after the prompt files.
get_prompt_files_RootLast(config) ==
    IF config.type = "gltf_model"
    THEN config.prompt_files \o <<config.gl_root>>
    ELSE <<config.gl_root>>

get_prompt_files(config) ==
    IF config.type = "gltf_model"
    THEN <<config.gl_root>> \o config.prompt_files
    ELSE <<config.gl_root>>

get_deferrable_files(config) ==
    IF config.type = "gltf_model" THEN config.deferrable_files ELSE << >>

\* ----------------------------------------------------------------- Asset

NoAsset == [absent |-> TRUE]

NoFiles == [f \in {} |-> << >>]

Asset_new(name, config) ==
    [name |-> name, config |-> config, state |-> "Incomplete", files |-> NoFiles]

is_complete(asset) == asset.state = "Complete"

\* Faulty variant: the state is left as it was.
set_complete_Forgotten(asset) == asset

set_complete(asset) == [asset EXCEPT !.state = "Complete"]

\* Faulty variant: an existing key keeps its value.
InsertFile_KeepingOld(files, name, file) ==
    [f \in DOMAIN files \cup {name} |-> IF f \in DOMAIN files THEN files[f] ELSE file]

\* files.insert(name, file) for one pair: an existing key is overwritten.
InsertFile(files, name, file) ==
    [f \in DOMAIN files \cup {name} |-> IF f = name THEN file ELSE files[f]]

RECURSIVE InsertAll(_, _)
InsertAll(files, file_list) ==
    IF file_list = << >> THEN files
    ELSE InsertAll(InsertFile(files, Head(file_list)[1], Head(file_list)[2]),
                   Tail(file_list))

\* Faulty variant: the last file of the list is left out.
add_files_AllButLast(asset, file_list) ==
    [asset EXCEPT !.files = InsertAll(asset.files,
                                      SubSeq(file_list, 1, Len(file_list) - 1))]

add_files(asset, file_list) ==
    [asset EXCEPT !.files = InsertAll(asset.files, file_list)]

get_file(asset, name) ==
    IF name \in DOMAIN asset.files THEN <<asset.files[name]>> ELSE << >>

\* ---------------------------------------------------- scene documents

\* Option<T>: None is the empty sequence, Some(v) the sequence of v alone.
None == << >>

Some(v) == <<v>>

\* gltf::buffer::Source and gltf::image::Source.
BufBin == [kind |-> "Bin"]

BufUri(path) == [kind |-> "Uri", uri |-> path]

ImgUri(uri, mime) == [kind |-> "Uri", uri |-> uri, mime |-> mime]

ImgView(view, mime) == [kind |-> "View", view |-> view, mime |-> Some(mime)]

\* A buffer view: the index of its buffer in the document, offset, length, name.
View(buffer, offset, length) ==
    [buffer |-> buffer, offset |-> offset, length |-> length, name |-> None]

\* An accessor over a view (count items).
Acc(view, count) == [view |-> Some(view), count |-> count]

Sem(kind, index) == [kind |-> kind, index |-> index]

Prim(attributes, indices, texture) ==
    [attributes |-> attributes, indices |-> indices, texture |-> texture]

\* A base-color texture: the index of its image and the sampler's wrap modes.
Tex(image, wrap_s, wrap_t) == [image |-> image, wrap_s |-> wrap_s, wrap_t |-> wrap_t]

MeshNode(name, prims) == [name |-> name, mesh |-> Some([primitives |-> prims])]

\* a.gltf: two mesh nodes over x.bin sharing one png texture fetched by uri.
DocA ==
    [nodes |-> << MeshNode(Some("n0"),
                    << Prim(<< <<Sem("Positions", 0), Acc(View(1, 0, 4), 1)>>,
                               <<Sem("Tangents", 0), Acc(View(2, 0, 2), 1)>>,
                               <<Sem("Normals", 0), Acc(View(1, 0, 4), 1)>> >>,
                            Some(Acc(View(1, 2, 2), 2)),
                            Some(Tex(1, 10497, 33071))) >>),
                  MeshNode(None,
                    << Prim(<< <<Sem("Positions", 0), Acc(View(1, 0, 2), 1)>> >>,
                            Some(Acc(View(1, 0, 2), 2)),
                            Some(Tex(1, 10497, 10497))) >>) >>,
     buffers |-> << BufUri("x.bin"), BufUri("y.bin") >>,
     images |-> << ImgUri("t.png", Some("image/png")) >>,
     blob |-> None]

\* c.gltf: one mesh node; attributes in x.bin, indices in y.bin, a png texture by uri.
DocC ==
    [nodes |-> << MeshNode(Some("n0"),
                    << Prim(<< <<Sem("Positions", 0), Acc(View(1, 0, 2), 1)>>,
                               <<Sem("TexCoords", 0), Acc(View(1, 2, 2), 1)>> >>,
                            Some(Acc(View(2, 0, 2), 2)),
                            Some(Tex(1, 10497, 10497))) >>) >>,
     buffers |-> << BufUri("x.bin"), BufUri("y.bin") >>,
     images |-> << ImgUri("t.png", Some("image/png")) >>,
     blob |-> None]

\* b.glb: one mesh node over the embedded blob; its texture is a view-backed png.
DocB ==
    [nodes |-> << MeshNode(Some("n0"),
                    << Prim(<< <<Sem("Positions", 0), Acc(View(1, 0, 2), 1)>> >>,
                            Some(Acc(View(1, 2, 1), 1)),
                            Some(Tex(1, 10497, 10497))) >>) >>,
     buffers |-> << BufBin >>,
     images |-> << ImgView(View(1, 0, 3), "image/png") >>,
     blob |-> Some(<<80, 1, 1>>)]

\* A node without a mesh (a camera, a light, a group).
BareNode(name) == [name |-> name, mesh |-> None]

\* e.gltf: a mesh node whose primitive has no index accessor, then a mesh node whose
\* primitive has no base-color texture.
DocE ==
    [nodes |-> << MeshNode(Some("n0"),
                    << Prim(<< <<Sem("Positions", 0), Acc(View(1, 0, 2), 1)>> >>,
                            None,
                            Some(Tex(1, 10497, 10497))) >>),
                  MeshNode(Some("n1"),
                    << Prim(<< <<Sem("Positions", 0), Acc(View(1, 0, 2), 1)>> >>,
                            Some(Acc(View(1, 2, 2), 2)),
                            None) >>) >>,
     buffers |-> << BufUri("x.bin") >>,
     images |-> << ImgUri("t.png", Some("image/png")) >>,
     blob |-> None]

\* f.gltf: a mesh node over x.bin with a png texture, then a node without a mesh.
DocF ==
    [nodes |-> << MeshNode(Some("n0"),
                    << Prim(<< <<Sem("Positions", 0), Acc(View(1, 0, 2), 1)>> >>,
                            Some(Acc(View(1, 2, 2), 2)),
                            Some(Tex(1, 10497, 10497))) >>),
                  BareNode(Some("cam")) >>,
     buffers |-> << BufUri("x.bin") >>,
     images |-> << ImgUri("t.png", Some("image/png")) >>,
     blob |-> None]

\* One mesh node of the given name over x.bin, with a png texture by uri.
DocOne(node_name) ==
    [nodes |-> << MeshNode(Some(node_name),
                    << Prim(<< <<Sem("Positions", 0), Acc(View(1, 0, 2), 1)>> >>,
                            Some(Acc(View(1, 2, 2), 2)),
                            Some(Tex(1, 10497, 10497))) >>) >>,
     buffers |-> << BufUri("x.bin") >>,
     images |-> << ImgUri("t.png", Some("image/png")) >>,
     blob |-> None]

\* s.gltf and s0.gltf: the documents of the assets named "s" and "s0_".
DocS == DocOne("0_x")

DocS0 == DocOne("x")

\* g.gltf and h.gltf: one mesh node over x.bin whose texture is the file t.png, declared
\* with a MIME type the renderer does not decode, or with none.
DocMime(mime) == [DocOne("n0") EXCEPT !.images = << ImgUri("t.png", mime) >>]

DocG == DocMime(Some("image/gif"))

DocH == DocMime(None)

\* Gltf::from_slice: the document a root file's bytes parse to, or a Gltf error.
ParseGltf(bytes) ==
    CASE bytes = <<1>> -> [ok |-> TRUE, val |-> DocA]
      [] bytes = <<2>> -> [ok |-> TRUE, val |-> DocC]
      [] bytes = <<3>> -> [ok |-> TRUE, val |-> DocB]
      [] bytes = <<5>> -> [ok |-> TRUE, val |-> DocE]
      [] bytes = <<6>> -> [ok |-> TRUE, val |-> DocF]
      [] bytes = <<7>> -> [ok |-> TRUE, val |-> DocS]
      [] bytes = <<8>> -> [ok |-> TRUE, val |-> DocS0]
      [] bytes = <<9>> -> [ok |-> TRUE, val |-> DocG]
      [] bytes = <<10>> -> [ok |-> TRUE, val |-> DocH]
      [] OTHER -> [ok |-> FALSE, err |-> [kind |-> "Gltf", msg |-> ""]]

\* ------------------------------------------------------- buffer ids

\* BufferSource: Binary(buffer source), Image(image source), Index(node index).
SrcBinary(source) == [tag |-> "Binary", source |-> source]

SrcImage(source) == [tag |-> "Image", source |-> source]

SrcIndex(node_index) == [tag |-> "Index", node_index |-> node_index]

UnwrapOr(opt, default) == IF opt = None THEN default ELSE opt[1]

build_buffer_id(src, asset_name) ==
    CASE src.tag = "Binary" /\ src.source.kind = "Bin" -> asset_name \o "bbb"
      [] src.tag = "Binary" /\ src.source.kind = "Uri" -> asset_name \o "bbu" \o src.source.uri
      [] src.tag = "Image" /\ src.source.kind = "View" ->
            asset_name \o "biv" \o UnwrapOr(src.source.view.name, "unk")
      [] src.tag = "Image" /\ src.source.kind = "Uri" -> asset_name \o "biu" \o src.source.uri
      [] src.tag = "Index" -> asset_name \o "ind" \o ToString(src.node_index)

\* ------------------------------------------------------------ results

Ok(v) == [ok |-> TRUE, val |-> v]

Err(kind, msg) == [ok |-> FALSE, err |-> [kind |-> kind, msg |-> msg]]

missing_val(msg) == Err("MissingVal", msg)

NotYet == Err("NotYet", "")

\* A panic (expect, unwrap, panic!, a slice out of range): the program traps.
Panic(msg) == Err("Panic", msg)

\* ------------------------------------------------------------ BufferCache

NoEntries == [id \in {} |-> None]

\* BufferCache { bin: HashMap::new(), image: HashMap::new() }; log is a ghost field:
\* the get_bin / get_image calls of the pass, in order, with what they returned; adds
\* is a ghost field: the add_bin / add_image calls of the pass, in order, each with the
\* number of lookups made before it and whether it replaced an entry (the warning).
NewBufferCache == [bin |-> NoEntries, image |-> NoEntries, log |-> << >>, adds |-> << >>]

\* Faulty variant: the cache answers no lookup.
get_bin_NeverCached(bc, id) == None

\* Faulty variant: any cached buffer answers the lookup, whatever its id.
get_bin_AnyEntry(bc, id) ==
    IF DOMAIN bc.bin = {} THEN None ELSE Some(bc.bin[CHOOSE i \in DOMAIN bc.bin : TRUE])

get_bin(bc, id) == IF id \in DOMAIN bc.bin THEN Some(bc.bin[id]) ELSE None

get_image(bc, id) == IF id \in DOMAIN bc.image THEN Some(bc.image[id]) ELSE None

Logged(bc, op, id, found) ==
    [bc EXCEPT !.log = Append(@, [op |-> op, id |-> id, hit |-> found # None])]

add_bin(bc, id, bin) ==
    [bc EXCEPT !.bin = [i \in DOMAIN bc.bin \cup {id} |-> IF i = id THEN bin ELSE bc.bin[i]],
               !.adds = Append(@, [op |-> "add_bin", id |-> id, at |-> Len(bc.log),
                                   overwritten |-> id \in DOMAIN bc.bin])]

add_image(bc, id, img) ==
    [bc EXCEPT !.image = [i \in DOMAIN bc.image \cup {id} |-> IF i = id THEN img ELSE bc.image[i]],
               !.adds = Append(@, [op |-> "add_image", id |-> id, at |-> Len(bc.log),
                                   overwritten |-> id \in DOMAIN bc.image])]

\* Faulty variant: the blob is handed on as it is.
PadTo4_Unpadded(data) == data

\* while data.len() % 4 != 0 { data.push(0) }
RECURSIVE PadTo4(_)
PadTo4(data) == IF Len(data) % 4 = 0 THEN data ELSE PadTo4(Append(data, 0))

\* data[offset..(offset + length)]: in range, or a panic.
SliceOk(data, offset, length) == offset + length <= Len(data)

Slice(data, offset, length) == SubSeq(data, offset + 1, offset + length)

\* The first element of seq that satisfies Test, as an Option (Iterator::find).
Find(seq, Test(_)) ==
    LET hits == {i \in 1..Len(seq) : Test(seq[i])}
    IN IF hits = {} THEN None
       ELSE Some(seq[CHOOSE i \in hits : \A j \in hits : i <= j])

\* Results carry the BufferCache as left by the call (bc).
WithBc(res, bc) == [res |-> res, bc |-> bc]

lookup_bin_from_asset(bc, id, gltf, asset) ==
    LET Matches(b) == id = build_buffer_id(SrcBinary(b), asset.name)
        buffer == Find(gltf.buffers, Matches)
    IN IF buffer = None
       THEN WithBc(missing_val("BinaryBuffer not found in gltf!"), bc)
       ELSE IF buffer[1].kind = "Bin"
       THEN IF gltf.blob = None
            THEN WithBc(missing_val("Missing gltf blob!"), bc)
            ELSE LET bin == [id |-> id, data |-> PadTo4(gltf.blob[1])]
                 IN WithBc(Ok(bin), add_bin(bc, id, bin))
       ELSE LET file == get_file(asset, buffer[1].uri)
            IN IF file = None
               THEN WithBc(NotYet, bc)
               ELSE LET bin == [id |-> id, data |-> file[1]]
                    IN WithBc(Ok(bin), add_bin(bc, id, bin))

\* image::load_from_memory_with_format(..).into_rgba8(): a file that starts with its
\* format's signature byte (80 png, 74 jpeg), then width, height, pixels.
Signature(format) == IF format = "Png" THEN 80 ELSE 74

Decode(raw, format) ==
    IF Len(raw) >= 3 /\ raw[1] = Signature(format)
    THEN Ok([width |-> raw[2], height |-> raw[3], data |-> SubSeq(raw, 4, Len(raw))])
    ELSE Err("Image", "")

\* self.bin.iter().next(): some entry of the map; first is the id the map's
\* iteration order happens to put first when it is a key.
FirstBin(bc, first) ==
    IF DOMAIN bc.bin = {} THEN None
    ELSE IF first \in DOMAIN bc.bin THEN Some(bc.bin[first])
    ELSE Some(bc.bin[CHOOSE i \in DOMAIN bc.bin : TRUE])

\* The match on gltf_image.source() of lookup_img_from_asset: the image's raw bytes.
ImageBytes(bc, source, asset, first) ==
    IF source.kind = "View"
    THEN With(FirstBin(bc, first), LAMBDA bin :
            IF bin = None
            THEN missing_val("No binaries in cache for binary image source!")
            ELSE IF bin[1].id # build_buffer_id(SrcImage(source), asset.name)
            THEN missing_val("Binary source buffer doesn't match!")
            ELSE IF ~SliceOk(bin[1].data, source.view.offset, source.view.length)
            THEN Panic("range end index out of range")
            ELSE Ok(Slice(bin[1].data, source.view.offset, source.view.length)))
    ELSE With(get_file(asset, source.uri), LAMBDA file :
            IF file = None THEN NotYet ELSE Ok(file[1]))

\* The tail of lookup_img_from_asset: the format of the MIME type, decode, cache.
DecodeImage(bc, id, mime, raw_data) ==
    IF mime \notin {Some("image/jpeg"), Some("image/png")}
    THEN WithBc(Panic("Unknown image format!"), bc)
    ELSE With(Decode(raw_data, IF mime = Some("image/jpeg") THEN "Jpeg" ELSE "Png"),
              LAMBDA dyn_image :
                IF ~dyn_image.ok THEN WithBc(dyn_image, bc)
                ELSE With([id |-> id, width |-> dyn_image.val.width,
                           height |-> dyn_image.val.height, data |-> dyn_image.val.data],
                          LAMBDA img : WithBc(Ok(img), add_image(bc, id, img))))

lookup_img_from_asset(bc, id, gltf, asset, first) ==
    With(Find(gltf.images, LAMBDA i : id = build_buffer_id(SrcImage(i), asset.name)),
         LAMBDA gltf_image :
            IF gltf_image = None
            THEN WithBc(missing_val("ImageBuffer not found in gltf!"), bc)
            ELSE With(ImageBytes(bc, gltf_image[1], asset, first), LAMBDA raw :
                    IF ~raw.ok THEN WithBc(raw, bc)
                    ELSE DecodeImage(bc, id, gltf_image[1].mime, raw.val)))

\* -------------------------------------------------------------- Renderable

\* format!("{}{}_{}", asset_name, node_index, node_name); node indices count from 0.
RenderableId_new(asset_name, node, node_index) ==
    [name |-> asset_name \o ToString(node_index) \o "_" \o UnwrapOr(node.name, "unk"),
     node_index |-> node_index]

NoAccessors == [a \in {} |-> None]

Renderable_new(asset, id) ==
    [parent_asset |-> asset.name,
     id |-> id,
     base_color |-> None,
     accessors |-> NoAccessors,
     indices |-> None,
     render_target |-> asset.config.render_type]

\* impl From<&Semantic> for Attribute
AttributeFrom(sem) ==
    CASE sem.kind = "Positions" -> [kind |-> "Positions", index |-> 0]
      [] sem.kind = "Normals" -> [kind |-> "Normals", index |-> 0]
      [] sem.kind = "TexCoords" -> [kind |-> "TexCoords", index |-> sem.index]
      [] OTHER -> [kind |-> "Unhandled", index |-> 0]

is_supported(attr) == attr.kind # "Unhandled"

AttrIndices == [kind |-> "Indices", index |-> 0]

\* Accessor::new, for an accessor that has a view (view().unwrap()).
Accessor_new(attribute, accessor, asset_name, gltf) ==
    LET view == accessor.view[1]
    IN [attribute |-> attribute,
        buffer |-> None,
        buffer_id |-> build_buffer_id(SrcBinary(gltf.buffers[view.buffer]), asset_name),
        count |-> accessor.count,
        offset |-> view.offset]

\* The state of one Renderable::update: the renderable, the pass's BufferCache and the
\* result so far (an Err ends the update where it is raised).
PutAccessor(r, attr, acc) ==
    [r EXCEPT !.accessors =
        [k \in DOMAIN r.accessors \cup {attr} |-> IF k = attr THEN acc ELSE r.accessors[k]]]

\* What a NotYet from a lookup becomes (the error promotion of attributes).
\* Faulty variant: the missing component is passed over whatever the state of the asset.
PromoteAttribute_Swallowing(asset, running) == running

\* Faulty variant: the missing component is fatal whatever the state of the asset.
PromoteAttribute_AlwaysFatal(asset, running) ==
    missing_val("asset is complete but missing component")

\* Faulty variant: on an incomplete asset the lookup's NotYet is returned.
PromoteAttribute_Returning(asset, running) ==
    IF is_complete(asset)
    THEN missing_val("asset is complete but missing component")
    ELSE NotYet

PromoteAttribute(asset, running) ==
    IF is_complete(asset)
    THEN missing_val("asset is complete but missing component")
    ELSE running

\* One turn of `for (sem, gacc) in prim.attributes()`.
ResolveAttribute(st, sem, gacc, gltf, asset) ==
    LET attr == AttributeFrom(sem)
    IN IF ~is_supported(attr) THEN st
       ELSE IF gacc.view = None
       THEN [st EXCEPT !.res = Panic("called Option::unwrap() on a None value")]
       ELSE
       LET acc == IF attr \in DOMAIN st.r.accessors
                  THEN st.r.accessors[attr]
                  ELSE Accessor_new(attr, gacc, asset.name, gltf)
           cached == get_bin(st.bc, acc.buffer_id)
           bc1 == Logged(st.bc, "get_bin", acc.buffer_id, cached)
           look == lookup_bin_from_asset(bc1, acc.buffer_id, gltf, asset)
       IN IF acc.buffer # None
          THEN [r |-> PutAccessor(st.r, attr, acc), bc |-> bc1, res |-> st.res]
          ELSE IF cached # None
          THEN [r |-> PutAccessor(st.r, attr, [acc EXCEPT !.buffer = cached]),
                bc |-> bc1, res |-> st.res]
          ELSE IF look.res.ok
          THEN [r |-> PutAccessor(st.r, attr, [acc EXCEPT !.buffer = Some(look.res.val)]),
                bc |-> look.bc, res |-> st.res]
          ELSE IF look.res.err.kind = "NotYet"
          THEN [r |-> PutAccessor(st.r, attr, acc), bc |-> look.bc,
                res |-> PromoteAttribute(asset, st.res)]
          ELSE [r |-> PutAccessor(st.r, attr, acc), bc |-> look.bc, res |-> look.res]

RECURSIVE ResolveAttributes(_, _, _, _, _)
ResolveAttributes(st, attributes, i, gltf, asset) ==
    IF i > Len(attributes) \/ ~st.res.ok THEN st
    ELSE With(ResolveAttribute(st, attributes[i][1], attributes[i][2], gltf, asset),
              LAMBDA next : ResolveAttributes(next, attributes, i + 1, gltf, asset))

\* Faulty variant: the accessor taken out of self.indices is not put back.
KeepIndices_Dropped(st, indices) == [st EXCEPT !.r.indices = None]

\* Lines 97-98 and 117: an index accessor that has its buffer is put back as taken.
KeepIndices(st, indices) == [st EXCEPT !.r.indices = Some(indices)]

\* Lines 88-117: the index accessor is created on first use, then its buffer is carved
\* out of the source buffer when that one is in the BufferCache.
ResolveIndices(st, node_index, prim, gltf, asset) ==
    LET created ==
            IF st.r.indices # None THEN Ok(st.r.indices[1])
            ELSE IF prim.indices = None THEN missing_val("Prim missing indices")
            ELSE IF prim.indices[1].view = None
            THEN Panic("called Option::unwrap() on a None value")
            ELSE Ok([Accessor_new(AttrIndices, prim.indices[1], asset.name, gltf)
                        EXCEPT !.buffer_id = build_buffer_id(SrcIndex(node_index), asset.name)])
        indices == created.val
        view == prim.indices[1].view[1]
        source_buffer_id == build_buffer_id(SrcBinary(gltf.buffers[view.buffer]), asset.name)
        bin == get_bin(st.bc, source_buffer_id)
        bc1 == Logged(st.bc, "get_bin", source_buffer_id, bin)
    IN IF ~created.ok THEN [st EXCEPT !.res = created]
       ELSE IF indices.buffer # None THEN KeepIndices(st, indices)
       \* from here on self.indices has been taken: an early return leaves it None
       ELSE IF prim.indices = None
       THEN [st EXCEPT !.r.indices = None, !.res = missing_val("Prim missing indices")]
       ELSE IF prim.indices[1].view = None
       THEN [st EXCEPT !.r.indices = None, !.res = missing_val("Buffer view missing")]
       ELSE IF bin = None
       THEN [st EXCEPT !.r.indices = Some(indices), !.bc = bc1]
       ELSE IF ~SliceOk(bin[1].data, view.offset, view.length)
       THEN [st EXCEPT !.r.indices = None, !.bc = bc1,
                       !.res = Panic("range end index out of range")]
       ELSE [st EXCEPT
                !.r.indices = Some([indices EXCEPT !.buffer =
                    Some([id |-> indices.buffer_id,
                          data |-> Slice(bin[1].data, view.offset, view.length)])]),
                !.bc = bc1]

Pending(target) == [kind |-> "Pending", id |-> target]

Available(img) == [kind |-> "Available", img |-> img]

\* Lines 119-166: the base-color texture is recorded Pending on first use, then looked
\* up; self.base_color has been taken, so an early return leaves it None.
ResolveBaseColor(st, prim, gltf, asset, first) ==
    LET created ==
            IF st.r.base_color # None THEN Ok(st.r.base_color[1])
            ELSE IF prim.texture = None THEN missing_val("No texture info for base color")
            ELSE Ok([status |-> Pending(build_buffer_id(
                                    SrcImage(gltf.images[prim.texture[1].image]), asset.name)),
                     wrap_s |-> prim.texture[1].wrap_s,
                     wrap_t |-> prim.texture[1].wrap_t])
        base_color == created.val
        target == base_color.status.id
        img == get_image(st.bc, target)
        bc1 == Logged(st.bc, "get_image", target, img)
        look == lookup_img_from_asset(bc1, target, gltf, asset, first)
    IN IF ~created.ok THEN [st EXCEPT !.res = created]
       ELSE IF base_color.status.kind # "Pending"
       THEN [st EXCEPT !.r.base_color = Some(base_color)]
       ELSE IF img # None
       THEN [st EXCEPT !.r.base_color = Some([base_color EXCEPT !.status = Available(img[1])]),
                       !.bc = bc1]
       ELSE IF look.res.ok
       THEN [st EXCEPT !.r.base_color =
                            Some([base_color EXCEPT !.status = Available(look.res.val)]),
                       !.bc = look.bc]
       ELSE IF look.res.err.kind = "NotYet" /\ ~is_complete(asset)
       THEN [st EXCEPT !.r.base_color = Some(base_color), !.bc = look.bc]
       ELSE IF look.res.err.kind = "NotYet"
       THEN [st EXCEPT !.r.base_color = None, !.bc = look.bc,
                       !.res = missing_val(st.r.id.name
                                   \o ": asset is complete but missing component")]
       ELSE [st EXCEPT !.r.base_color = None, !.bc = look.bc, !.res = look.res]

\* Renderable::update
update(r, gltf, asset, bc, first) ==
    LET start == [r |-> r, bc |-> bc, res |-> Ok(TRUE)]
        node == gltf.nodes[r.id.node_index + 1]
        prim == node.mesh[1].primitives[1]
        Indices(s1) ==
            IF s1.res.ok THEN ResolveIndices(s1, r.id.node_index, prim, gltf, asset) ELSE s1
        BaseColor(s2) ==
            IF s2.res.ok THEN ResolveBaseColor(s2, prim, gltf, asset, first) ELSE s2
    IN IF r.id.node_index + 1 > Len(gltf.nodes)
       THEN [start EXCEPT !.res = Panic("Failed to find node index")]
       ELSE IF node.mesh = None
       THEN [start EXCEPT !.res = Panic("No mesh for node!")]
       ELSE IF node.mesh[1].primitives = << >>
       THEN [start EXCEPT !.res = Panic("called Option::unwrap() on a None value")]
       ELSE With(With(ResolveAttributes(start, prim.attributes, 1, gltf, asset), Indices),
                 BaseColor)

\* Faulty variant: an Asset without its root file is read as the document of a.gltf.
get_gltf_DefaultDocument(asset) ==
    LET file == get_file(asset, asset.config.gl_root)
    IN IF file = None THEN Ok(DocA)
       ELSE ParseGltf(file[1])

get_gltf(asset) ==
    LET file == get_file(asset, asset.config.gl_root)
    IN IF file = None THEN missing_val("No gl root file in asset!")
       ELSE ParseGltf(file[1])

\* Faulty variant: every Renderable of the registry is taken.
BelongsTo_Everyone(r, asset) == TRUE

\* The filter of line 274: the Renderables whose parent is the asset.
BelongsTo(r, asset) == r.parent_asset = asset.name

\* The loop of lines 274-277 from entry i on; updates is a ghost: the index and the
\* result of every update call made.
RECURSIVE UpdateAll(_, _, _, _, _)
UpdateAll(lp, i, gltf, asset, first) ==
    IF i > Len(lp.renderables) \/ ~lp.res.ok THEN lp
    ELSE IF ~BelongsTo(lp.renderables[i], asset)
    THEN UpdateAll(lp, i + 1, gltf, asset, first)
    ELSE With(update(lp.renderables[i], gltf, asset, lp.bc, first),
              LAMBDA u :
                With([renderables |-> [lp.renderables EXCEPT ![i] = u.r],
                      bc |-> u.bc,
                      res |-> u.res,
                      updates |-> Append(lp.updates, [index |-> i, res |-> u.res])],
                     LAMBDA lp1 : UpdateAll(lp1, i + 1, gltf, asset, first)))

\* Faulty variant: the index of every entry from i on, whatever its parent asset.
IndicesOf_EveryEntry(regs, i, asset_name) == [k \in 1..(Len(regs) + 1 - i) |-> i + k - 1]

\* The ids of the entries of a registry that belong to an asset, in arena order.
RECURSIVE IndicesOf(_, _, _)
IndicesOf(regs, i, asset_name) ==
    IF i > Len(regs) THEN << >>
    ELSE (IF regs[i].parent_asset = asset_name THEN <<i>> ELSE << >>)
         \o IndicesOf(regs, i + 1, asset_name)

\* Faulty variant: every id is taken as new.
NotInRegistry_Always(regs, n) == TRUE

\* The filter of lines 264-266: no entry of the registry has the id's name.
NotInRegistry(regs, n) == \A j \in 1..Len(regs) : regs[j].id.name # n.name

\* update_renderables_from_asset: the result, the registry as the call leaves it, and
\* two ghosts (the BufferCache's lookups and the update calls of the pass).
update_renderables_from_asset(asset, registry, first) ==
    LET Pass(gltf) ==
            LET nodes == gltf.nodes
                renderable_ids ==
                    [i \in 1..Len(nodes) |-> RenderableId_new(asset.name, nodes[i], i - 1)]
                IsNew(n) == NotInRegistry(registry, n)
                new_ids == SelectSeq(renderable_ids, IsNew)
                new_renderables ==
                    [i \in 1..Len(new_ids) |-> Renderable_new(asset, new_ids[i])]
                Result(lp) ==
                    [res |-> IF lp.res.ok THEN Ok(IndicesOf(lp.renderables, 1, asset.name))
                             ELSE lp.res,
                     renderables |-> lp.renderables,
                     log |-> lp.bc.log,
                     adds |-> lp.bc.adds,
                     updates |-> lp.updates]
            IN With(With([renderables |-> registry \o new_renderables,
                          bc |-> NewBufferCache,
                          res |-> Ok(TRUE),
                          updates |-> << >>],
                         LAMBDA lp0 : UpdateAll(lp0, 1, gltf, asset, first)),
                    Result)
        Run(gltf) ==
            IF ~gltf.ok
            THEN [res |-> gltf, renderables |-> registry, log |-> << >>, adds |-> << >>,
                  updates |-> << >>]
            ELSE Pass(gltf.val)
    IN With(get_gltf(asset), Run)

\* ------------------------------------------------------------ AssetCache

\* Faulty variant: the map is replaced by one holding the new entry only.
add_asset_Replacing(c, key, asset) == [k \in DOMAIN c |-> IF k = key THEN asset ELSE NoAsset]

\* cache.insert(key, asset): an existing entry is overwritten (and a warning logged).
add_asset(c, key, asset) == [c EXCEPT ![key] = asset]

\* The closures fetch_asset hands to modify_asset, and their application.
AddFiles(file_list) == [op |-> "add_files", file_list |-> file_list]

SetComplete == [op |-> "set_complete"]

Call(fun, asset) ==
    IF fun.op = "add_files" THEN add_files(asset, fun.file_list) ELSE set_complete(asset)

\* cache.get_mut(key): Some(val) => fun(val), None => a warning only.
modify_asset(c, key, fun) ==
    IF c[key] = NoAsset THEN c ELSE [c EXCEPT ![key] = Call(fun, c[key])]

\* The (filename, data) pairs a phase's fetches deliver, in the order of the list.
Fetched(file_list) == [i \in 1..Len(file_list) |-> <<file_list[i], FileBytes(file_list[i])>>]

\* AssetMsg as published on the asset bus; "by" is the publishing task (a ghost field).
NoConfig == [none |-> TRUE]

MsgNew(p, name, config) == [kind |-> "New", name |-> name, config |-> config, by |-> p]
MsgUpdate(p, name) == [kind |-> "Update", name |-> name, config |-> NoConfig, by |-> p]

\* Faulty variant: the last event is sent as another Update.
MsgComplete_AsUpdate(p, name) == [kind |-> "Update", name |-> name, config |-> NoConfig, by |-> p]

MsgComplete(p, name) == [kind |-> "Complete", name |-> name, config |-> NoConfig, by |-> p]

\* ----------------------------------------------------------------- state

VARIABLES
    pc,        \* per fetch_asset task: where it is suspended or how it ended
    url,       \* per task: the manifest url it was spawned with
    config,    \* per task: the Config it parsed (NoConfig before)
    fetches,   \* per task: the results of the fetches of the phase being joined
    cache,     \* AssetCache.cache: asset name -> Asset (NoAsset when absent)
    events,    \* every AssetMsg sent on the asset bus, in send order
    inserted,  \* ghost: the tasks that have called add_asset
    registry,  \* Renderer.renderables: the arena of Renderables, in index order
    lastPass,  \* ghost: the latest update_renderables_from_asset call (see ResolverPass)
    crashed,   \* a panic has trapped the program
    subject,   \* a value a function is called on by itself (see SpecUnit)
    call       \* the latest such call: its name, its arguments, what it returned

pipeVars == <<pc, url, config, fetches, cache, events, inserted>>

passVars == <<registry, lastPass, crashed>>

unitVars == <<subject, call>>

vars == <<pc, url, config, fetches, cache, events, inserted, registry, lastPass, crashed,
          subject, call>>

AllPending(file_list) == [i \in 1..Len(file_list) |-> "pending"]

\* Faulty variant: the join waits for the fetches of every task.
AllFetched_OfEveryTask(p) ==
    \A q \in Pipelines : \A i \in 1..Len(fetches[q]) : fetches[q][i] # "pending"

\* Faulty variant: the join is ready as soon as one fetch has completed.
AllFetched_FirstDone(p) ==
    fetches[p] = << >> \/ \E i \in 1..Len(fetches[p]) : fetches[p][i] # "pending"

AllFetched(p) == \A i \in 1..Len(fetches[p]) : fetches[p][i] # "pending"

AnyFailed(p) == \E i \in 1..Len(fetches[p]) : fetches[p][i] = "err"

PipeInit ==
    /\ pc = [p \in Pipelines |-> "idle"]
    /\ url = [p \in Pipelines |-> "none"]
    /\ config = [p \in Pipelines |-> NoConfig]
    /\ fetches = [p \in Pipelines |-> << >>]
    /\ cache = [n \in AssetNames |-> NoAsset]
    /\ events = << >>
    /\ inserted = {}

\* AssetCache::request_asset: spawn_local(fetch_asset(..)); tasks are numbered in
\* spawn order.
request_asset(p, u) ==
    /\ pc[p] = "idle"
    /\ \A q \in Pipelines : q < p => pc[q] # "idle"
    /\ pc' = [pc EXCEPT ![p] = "config"]
    /\ url' = [url EXCEPT ![p] = u]
    /\ UNCHANGED <<config, fetches, cache, events, inserted, passVars, unitVars>>

\* Faulty variant: the failure is treated as an empty Config and Complete is sent.
ConfigFailed_Completing(p) ==
    /\ pc[p] = "config"
    /\ pc' = [pc EXCEPT ![p] = "aborted"]
    /\ events' = Append(events, MsgComplete(p, url[p]))
    /\ UNCHANGED <<url, config, fetches, cache, inserted, passVars, unitVars>>

\* fetch_config returned Err: logged, both fetch lists empty, the if-let is skipped.
ConfigFailed(p) ==
    /\ pc[p] = "config"
    /\ pc' = [pc EXCEPT ![p] = "aborted"]
    /\ UNCHANGED <<url, config, fetches, cache, events, inserted, passVars, unitVars>>

\* fetch_config returned Ok(config): the task runs on to the await of the prompt join.
ConfigFetched(p) ==
    /\ pc[p] = "config"
    /\ LET cfg == ServerConfig(url[p])
           asset_name == cfg.name
       IN /\ config' = [config EXCEPT ![p] = cfg]
          /\ cache' = add_asset(cache, asset_name, Asset_new(asset_name, cfg))
          /\ events' = Append(events, MsgNew(p, asset_name, cfg))
          /\ fetches' = [fetches EXCEPT ![p] = AllPending(get_prompt_files(cfg))]
          /\ pc' = [pc EXCEPT ![p] = "prompt"]
          /\ inserted' = inserted \cup {p}
    /\ UNCHANGED <<url, passVars, unitVars>>

\* One fetch_binary_file of the phase being joined completes, with Ok or Err.
FetchDone(p, i, res) ==
    /\ pc[p] \in {"prompt", "deferrable"}
    /\ i \in 1..Len(fetches[p])
    /\ fetches[p][i] = "pending"
    /\ fetches' = [fetches EXCEPT ![p][i] = res]
    /\ UNCHANGED <<pc, url, config, cache, events, inserted, passVars, unitVars>>

\* Faulty variant: the deferrable files are not attached.
Finish_WithoutFiles(c, ev, p) ==
    /\ cache' = modify_asset(c, config[p].name, SetComplete)
    /\ events' = Append(ev, MsgComplete(p, config[p].name))
    /\ pc' = [pc EXCEPT ![p] = "done"]
    /\ fetches' = [fetches EXCEPT ![p] = << >>]

\* The tail of fetch_asset after the deferrable join: attach, set_complete, Complete.
Finish(c, ev, p) ==
    LET asset_name == config[p].name
        deferrable == Fetched(get_deferrable_files(config[p]))
        c1 == modify_asset(c, asset_name, AddFiles(deferrable))
        c2 == modify_asset(c1, asset_name, SetComplete)
    IN /\ cache' = c2
       /\ events' = Append(ev, MsgComplete(p, asset_name))
       /\ pc' = [pc EXCEPT ![p] = "done"]
       /\ fetches' = [fetches EXCEPT ![p] = << >>]

\* join_all(prompt_files) is ready and one result is Err: `?` returns it.
PromptFailed(p) ==
    /\ pc[p] = "prompt"
    /\ AllFetched(p)
    /\ AnyFailed(p)
    /\ pc' = [pc EXCEPT ![p] = "failed_prompt"]
    /\ UNCHANGED <<url, config, fetches, cache, events, inserted, passVars, unitVars>>

\* Faulty variant: the task is suspended at the deferrable join even when it is empty.
PromptJoined_AlwaysSuspended(p) ==
    /\ pc[p] = "prompt"
    /\ AllFetched(p)
    /\ ~AnyFailed(p)
    /\ cache' = modify_asset(cache, config[p].name,
                             AddFiles(Fetched(get_prompt_files(config[p]))))
    /\ events' = Append(events, MsgUpdate(p, config[p].name))
    /\ fetches' = [fetches EXCEPT ![p] = AllPending(get_deferrable_files(config[p]))]
    /\ pc' = [pc EXCEPT ![p] = "deferrable"]
    /\ UNCHANGED <<url, config, inserted, passVars, unitVars>>

\* join_all(prompt_files) is ready, all Ok: attach, Update, then the deferrable join
\* (ready at once when there is no deferrable file).
PromptJoined(p) ==
    /\ pc[p] = "prompt"
    /\ AllFetched(p)
    /\ ~AnyFailed(p)
    /\ LET asset_name == config[p].name
           prompt == Fetched(get_prompt_files(config[p]))
           c1 == modify_asset(cache, asset_name, AddFiles(prompt))
           ev1 == Append(events, MsgUpdate(p, asset_name))
       IN IF get_deferrable_files(config[p]) = << >>
          THEN Finish(c1, ev1, p)
          ELSE /\ cache' = c1
               /\ events' = ev1
               /\ fetches' = [fetches EXCEPT ![p] = AllPending(get_deferrable_files(config[p]))]
               /\ pc' = [pc EXCEPT ![p] = "deferrable"]
    /\ UNCHANGED <<url, config, inserted, passVars, unitVars>>

\* Faulty variant: the error is returned after the Asset has been marked Complete.
DeferrableFailed_Completing(p) ==
    /\ pc[p] = "deferrable"
    /\ AllFetched(p)
    /\ AnyFailed(p)
    /\ pc' = [pc EXCEPT ![p] = "failed_deferrable"]
    /\ cache' = modify_asset(cache, config[p].name, SetComplete)
    /\ UNCHANGED <<url, config, fetches, events, inserted, passVars, unitVars>>

\* join_all(deferrable_files) is ready and one result is Err: `?` returns it.
DeferrableFailed(p) ==
    /\ pc[p] = "deferrable"
    /\ AllFetched(p)
    /\ AnyFailed(p)
    /\ pc' = [pc EXCEPT ![p] = "failed_deferrable"]
    /\ UNCHANGED <<url, config, fetches, cache, events, inserted, passVars, unitVars>>

\* join_all(deferrable_files) is ready, all Ok.
DeferrableJoined(p) ==
    /\ pc[p] = "deferrable"
    /\ AllFetched(p)
    /\ ~AnyFailed(p)
    /\ Finish(cache, events, p)
    /\ UNCHANGED <<url, config, inserted, passVars, unitVars>>

\* A step of a spawned fetch_asset task: a network answer or the code that follows it.
TaskStep(p) ==
    \/ ConfigFailed(p)
    \/ ConfigFetched(p)
    \/ \E i \in DOMAIN fetches[p], res \in {"ok", "err"} : FetchDone(p, i, res)
    \/ PromptFailed(p)
    \/ PromptJoined(p)
    \/ DeferrableFailed(p)
    \/ DeferrableJoined(p)

PipeStep(p) ==
    \/ \E u \in ConfigUrls : request_asset(p, u)
    \/ TaskStep(p)

\* ------------------------------------------------------------- the renderer

NoPass ==
    [name |-> "", asset |-> NoAsset, res |-> Ok(<< >>), log |-> << >>,
     updates |-> << >>, again |-> FALSE]

PassInit ==
    /\ registry = << >>
    /\ lastPass = NoPass
    /\ crashed = FALSE

NoSubject == [kind |-> "none"]

NoCall == [op |-> "none"]

UnitInit ==
    /\ subject = NoSubject
    /\ call = NoCall

\* What self.bin.iter().next() may yield in a pass over an asset: any id of a binary
\* buffer of its document. Only a view-backed image reads it, so one value stands
\* for all when the document has none (or cannot be read).
FirstChoices(asset) ==
    LET gltf == get_gltf(asset)
        all == {build_buffer_id(SrcBinary(gltf.val.buffers[i]), asset.name) :
                    i \in 1..Len(gltf.val.buffers)}
    IN IF gltf.ok /\ \E i \in 1..Len(gltf.val.images) : gltf.val.images[i].kind = "View"
       THEN all
       ELSE {""}

\* The renderer calls update_renderables_from_asset on the Asset cached under n.
\* lastPass records the call: its asset as read, its result, the pass's lookups and
\* update calls, and whether the call before it was made on this same Asset value.
ResolverPass(n) ==
    /\ cache[n] # NoAsset
    /\ \E first \in FirstChoices(cache[n]) :
        \E out \in {update_renderables_from_asset(cache[n], registry, first)} :
           /\ registry' = out.renderables
           /\ lastPass' = [name |-> n, asset |-> cache[n], res |-> out.res,
                           log |-> out.log, updates |-> out.updates,
                           again |-> lastPass.name = n /\ lastPass.asset = cache[n]]
           /\ crashed' = (~out.res.ok /\ out.res.err.kind = "Panic")
    /\ UNCHANGED <<pipeVars, unitVars>>

Init == PipeInit /\ PassInit /\ UnitInit

\* The fetch pipelines alone: any interleaving of NumPipelines request_asset tasks.
Next == \E p \in Pipelines : PipeStep(p)

Spec == Init /\ [][Next]_vars

\* The task whose network may never answer, and the tasks whose network always does.
Hung == 1

Served == Pipelines \ {Hung}

\* The fetch pipelines where every fetch of a Served task completes (Ok or Err) and
\* the executor runs a task that can go on; nothing is promised of the Hung task.
SpecFair == Spec /\ \A q \in Served : WF_vars(TaskStep(q))

\* The renderer beside the fetch pipelines: passes over any cached Asset at any time,
\* until a panic.
NextResolver ==
    \/ \E p \in Loaders : ~crashed /\ PipeStep(p)
    \/ \E n \in AssetNames : ~crashed /\ ResolverPass(n)

SpecResolver == Init /\ [][NextResolver]_vars

\* ------------------------------------------------- functions called alone

\* Longest file list handed to one add_files call.
MaxList == 2

UnitNames == {"f", "g"}

UnitBytes == {<<1>>, <<2>>}

\* Vec<(String, Vec<u8>)> values of up to MaxList pairs.
UnitFileLists == UNION {[1..n -> UnitNames \X UnitBytes] : n \in 0..MaxList}

\* The values a function is called on: an Asset as Asset::new makes it.
AssetSubjects ==
    {[kind |-> "Asset", val |-> Asset_new(ServerConfig(u).name, ServerConfig(u))] :
        u \in ConfigUrls}

\* A buffer view the document gives a name.
Named(view, name) == [view EXCEPT !.name = Some(name)]

\* BufferSource values of one document: the GLB blob, uri buffers, images backed by
\* buffer views (unnamed and named), uri images, nodes' synthetic index buffers.
UnitSources ==
    {SrcBinary(BufBin), SrcBinary(BufUri("x.bin")), SrcBinary(BufUri("t.png")),
     SrcImage(ImgView(View(0, 0, 4), "image/png")),
     SrcImage(ImgView(View(0, 4, 4), "image/png")),
     SrcImage(ImgView(Named(View(0, 8, 4), "tex"), "image/png")),
     SrcImage(ImgUri("t.png", None)), SrcImage(ImgUri("x.bin", None)),
     SrcIndex(0), SrcIndex(1)}

\* Two sources of one asset's document.
SourceSubjects ==
    {[kind |-> "Sources", asset_name |-> n, val |-> <<s, t>>] :
        n \in {"a"}, s \in UnitSources, t \in UnitSources}

\* Most file names in one list of a Config a function is called on.
MaxFiles == 2

UnitFileNames == UNION {[1..n -> {"x.bin", "t.png"}] : n \in 0..MaxFiles}

\* Configs of both asset types.
ConfigSubjects ==
    {[kind |-> "Config", val |-> GltfModel("a", "a.gltf", pf, df, "Basic")] :
        pf \in UnitFileNames, df \in UnitFileNames}
    \cup {[kind |-> "Config", val |-> GlbModel("b", "b.glb", "Basic")]}

\* The files the pipelines can attach to the Asset cached under a name: those of every
\* manifest with that name.
FilesFor(name) ==
    UNION {Range(get_file_lists(ServerConfig(u))) :
              u \in {v \in ConfigUrls : ServerConfig(v).name = name}}

\* An Asset in either state holding any subset of those files, and the renderer's
\* registry, empty before the first pass over it.
PassSubjects ==
    UNION {{[kind |-> "Pass",
             val |-> [Asset_new(ServerConfig(u).name, ServerConfig(u))
                         EXCEPT !.files = [f \in present |-> FileBytes(f)],
                                !.state = state],
             renderables |-> << >>] :
               present \in SUBSET FilesFor(ServerConfig(u).name),
               state \in {"Incomplete", "Complete"}} :
           u \in ConfigUrls}

\* The bytes of the files of the scenes below.
SceneBytes(f) ==
    CASE f = "e.gltf" -> <<5>>
      [] f = "f.gltf" -> <<6>>
      [] f = "s.gltf" -> <<7>>
      [] f = "s0.gltf" -> <<8>>
      [] f = "g.gltf" -> <<9>>
      [] f = "h.gltf" -> <<10>>
      [] OTHER        -> FileBytes(f)

\* An Asset as a finished pipeline leaves it: Complete, with every file of its Config.
SceneAsset(cfg) ==
    [Asset_new(cfg.name, cfg)
        EXCEPT !.files = [f \in Range(get_file_lists(cfg)) |-> SceneBytes(f)],
               !.state = "Complete"]

\* An Asset that has not been given the root file of its Config.
RootlessAsset(cfg) ==
    [Asset_new(cfg.name, cfg)
        EXCEPT !.files = [f \in Range(get_file_lists(cfg)) \ {cfg.gl_root} |-> SceneBytes(f)]]

\* The Assets the renderer is handed, in any order and any number of times.
SceneAssets ==
    {SceneAsset(GltfModel("a", "a.gltf", <<"x.bin">>, <<"t.png">>, "Basic")),
     SceneAsset(GlbModel("b", "b.glb", "Basic")),
     SceneAsset(GltfModel("e", "e.gltf", <<"x.bin", "t.png">>, << >>, "Basic")),
     SceneAsset(GltfModel("f", "f.gltf", <<"x.bin", "t.png">>, << >>, "NoRender")),
     SceneAsset(GltfModel("s", "s.gltf", <<"x.bin", "t.png">>, << >>, "Basic")),
     SceneAsset(GltfModel("s0_", "s0.gltf", <<"x.bin", "t.png">>, << >>, "Basic")),
     \* the manifest of s published again with another scene file
     SceneAsset(GltfModel("s", "s0.gltf", <<"x.bin", "t.png">>, << >>, "Basic")),
     RootlessAsset(GltfModel("a", "a.gltf", <<"x.bin">>, <<"t.png">>, "Basic")),
     RootlessAsset(GlbModel("b", "b.glb", "Basic")),
     SceneAsset(GltfModel("g", "g.gltf", <<"x.bin", "t.png">>, << >>, "Basic")),
     [SceneAsset(GltfModel("g", "g.gltf", <<"x.bin", "t.png">>, << >>, "Basic"))
         EXCEPT !.state = "Incomplete"],
     SceneAsset(GltfModel("h", "h.gltf", <<"x.bin", "t.png">>, << >>, "Basic")),
     \* attributes in x.bin, indices in y.bin
     SceneAsset(GltfModel("c", "c.gltf", <<"x.bin", "y.bin", "t.png">>, << >>, "Basic"))}

\* The renderer's registry before any pass; trapped: a pass has panicked.
SceneSubjects == {[kind |-> "Scene", renderables |-> << >>, trapped |-> FALSE]}

\* Most bytes in the embedded blob of a document a lookup is made in.
MaxBlob == 5

\* A binary document with one inline buffer and its embedded blob, of any length.
BlobDocument(blob) ==
    [nodes |-> << >>, buffers |-> << BufBin >>, images |-> << >>, blob |-> Some(blob)]

BlobSubjects ==
    {[kind |-> "Blob", val |-> BlobDocument(blob)] :
        blob \in UNION {[1..n -> {0, 7}] : n \in 0..MaxBlob}}

\* ---- Bus (bus.rs; Network of network.rs is the same code under other names)

\* Most receivers registered on the bus, and most messages sent on it.
MaxReceivers == 2

MaxSends == 3

\* create_bus(): no receiver yet. A receiver is the position of its queue in rxers
\* (the bus and the holder share the queue through an Rc).
create_bus == [rxers |-> << >>]

\* new_receiver: a receiver with an empty queue is pushed onto rxers.
new_receiver(bus) == [bus EXCEPT !.rxers = Append(@, << >>)]

\* send: the message is pushed onto the queue of every receiver, in rxers order.
send(bus, data) == [bus EXCEPT !.rxers = [i \in DOMAIN @ |-> Append(@[i], data)]]

\* Faulty variant: the queue is returned and kept.
read_KeepingQueue(bus, rx) == [ret |-> bus.rxers[rx], bus |-> bus]

\* read: a clone of the queue is returned and the queue is cleared.
read(bus, rx) == [ret |-> bus.rxers[rx], bus |-> [bus EXCEPT !.rxers[rx] = << >>]]

\* A bus as created; ghosts: the messages sent so far, for every receiver the number
\* of messages sent before it was registered, and what its reads have returned.
BusSubjects ==
    {[kind |-> "Bus", val |-> create_bus, sent |-> << >>, since |-> << >>, got |-> << >>]}

\* ---- AssetLoadOperation (assets/mod.rs)

\* Most buffers and images, together, in a document the component loads.
MaxFetches == 3

\* The sources of the buffers and of the images of a scene document, in index order.
LoadDocuments ==
    {[buffers |-> b, images |-> i] :
        b \in UNION {[1..n -> {"Uri", "Bin"}] : n \in 0..MaxFetches},
        i \in UNION {[1..n -> {"Uri", "View"}] : n \in 0..MaxFetches}}

\* AssetLoadOperation::new: the fetch of the document is under way.
AssetLoadOperation_new == [gltf |-> None, buffers |-> << >>, images |-> << >>, pending |-> 1]

\* load_buffers / load_images: one fetch for every source that is a uri, carrying the
\* index of the source in the document (enumerate(), from 0).
FetchesFor(kind, sources) ==
    {[kind |-> kind, index |-> i - 1] : i \in {j \in 1..Len(sources) : sources[j] = "Uri"}}

\* image::load_from_memory: bytes that begin with a known signature decode.
load_from_memory(bytes) ==
    IF bytes # << >> /\ bytes[1] \in {80, 74} THEN Ok(bytes) ELSE Err("Image", "")

\* check_send: with nothing pending the images are taken and decoded and the document
\* is taken; a NewModel is sent when every image decoded and the document was there.
check_send(op) ==
    IF op.pending # 0 THEN [op |-> op, sent |-> << >>]
    ELSE LET images == [i \in 1..Len(op.images) |-> load_from_memory(op.images[i])]
             decoded == \A i \in 1..Len(images) : images[i].ok
         IN IF decoded /\ op.gltf # None
            THEN [op |-> [op EXCEPT !.images = << >>, !.gltf = None, !.buffers = << >>],
                  sent |-> << [gltf |-> op.gltf[1],
                               images |-> [i \in 1..Len(images) |-> images[i].val],
                               buffers |-> op.buffers] >>]
            ELSE [op |-> [op EXCEPT !.images = << >>, !.gltf = None], sent |-> << >>]

\* Vec::insert(index, x): the elements from index on move up; index > len panics.
VecInsert(v, index, x) ==
    IF index > Len(v) THEN Panic("insertion index should be <= len")
    ELSE Ok(SubSeq(v, 1, index) \o <<x>> \o SubSeq(v, index + 1, Len(v)))

\* The bytes the server answers for the buffer and for the image of an index.
BufferBytes(index) == <<20, index>>

ImageBytes_of(index, response) == IF response = "ok" THEN <<80, index>> ELSE <<0, index>>

\* The component after rendered(): one operation, its document fetch outstanding.
\* Ghosts: the fetches issued and not answered, the fetches answered Ok, the
\* NewModel messages sent, and whether a handler has panicked.
LoadSubjects ==
    {[kind |-> "Load", doc |-> d, val |-> AssetLoadOperation_new,
      outstanding |-> {[kind |-> "gltf", index |-> 0]}, answered |-> {},
      sent |-> << >>, trapped |-> FALSE] : d \in LoadDocuments}

\* ---- Uid (uid.rs)

\* The width of the uid counter in bits (u32 in the source; narrowed so that the
\* counter's whole range is walked through).
UidWidth == 3

UidModulus == 2 ^ UidWidth

\* static ref LAST_UID: Mutex<u32> = Mutex::new(1)
LAST_UID == 1

\* Uid::invalid()
Uid_invalid == 0

\* Faulty variant: the counter is left as it was.
get_new_uid_NotCounting(last, overflow_checks) ==
    [res |-> Some(last), last |-> last, poisoned |-> FALSE]

\* get_new_uid: the counter's value is the result and the counter goes up by one. At
\* the top of the range `*last += 1` panics in a build with overflow checks (the
\* guard is dropped while panicking: the mutex is poisoned and nothing is returned)
\* and wraps to 0 in a build without.
get_new_uid(last, overflow_checks) ==
    IF last + 1 < UidModulus
    THEN [res |-> Some(last), last |-> last + 1, poisoned |-> FALSE]
    ELSE IF overflow_checks
    THEN [res |-> None, last |-> last, poisoned |-> TRUE]
    ELSE [res |-> Some(last), last |-> (last + 1) % UidModulus, poisoned |-> FALSE]

\* The counter at program start; ghosts: the number of calls made and the Uids they
\* returned, in order.
UidSubjects ==
    {[kind |-> "Uid", last |-> LAST_UID, poisoned |-> FALSE, calls |-> 0, returned |-> << >>]}

Subjects ==
    AssetSubjects \cup SourceSubjects \cup ConfigSubjects \cup PassSubjects \cup SceneSubjects
        \cup BlobSubjects \cup BusSubjects \cup LoadSubjects \cup UidSubjects

add_files_call(file_list) ==
    /\ subject.kind = "Asset"
    /\ subject' = [subject EXCEPT !.val = add_files(@, file_list)]
    /\ call' = [op |-> "add_files", self |-> subject.val, file_list |-> file_list]
    /\ UNCHANGED <<pipeVars, passVars>>

set_complete_call ==
    /\ subject.kind = "Asset"
    /\ ~is_complete(subject.val)
    /\ subject' = [subject EXCEPT !.val = set_complete(@)]
    /\ call' = [op |-> "set_complete", self |-> subject.val]
    /\ UNCHANGED <<pipeVars, passVars>>

build_buffer_id_call ==
    /\ subject.kind = "Sources"
    /\ call' = [op |-> "build_buffer_id", self |-> subject.val,
                ids |-> <<build_buffer_id(subject.val[1], subject.asset_name),
                          build_buffer_id(subject.val[2], subject.asset_name)>>]
    /\ UNCHANGED <<pipeVars, passVars, subject>>

file_lists_call ==
    /\ subject.kind = "Config"
    /\ call' = [op |-> "file_lists", self |-> subject.val,
                prompt |-> get_prompt_files(subject.val),
                deferrable |-> get_deferrable_files(subject.val),
                all |-> get_file_lists(subject.val)]
    /\ UNCHANGED <<pipeVars, passVars, subject>>

pass_call ==
    /\ subject.kind = "Pass"
    /\ \E first \in FirstChoices(subject.val) :
        \E out \in {update_renderables_from_asset(subject.val, subject.renderables, first)} :
           /\ subject' = [subject EXCEPT !.renderables = out.renderables]
           /\ call' = [op |-> "update_renderables_from_asset", self |-> subject.val,
                       res |-> out.res, updates |-> out.updates, log |-> out.log,
                       adds |-> out.adds]
    /\ UNCHANGED <<pipeVars, passVars>>

\* Most Renderables in the registry when a pass begins.
MaxRegistry == 4

\* process_asset_msg hands an Asset to update_renderables_from_asset.
scene_pass(asset) ==
    /\ subject.kind = "Scene"
    /\ ~subject.trapped
    /\ Len(subject.renderables) <= MaxRegistry
    /\ \E first \in FirstChoices(asset) :
        \E out \in {update_renderables_from_asset(asset, subject.renderables, first)} :
           /\ subject' = [subject EXCEPT !.renderables = out.renderables,
                                         !.trapped = (~out.res.ok /\ out.res.err.kind = "Panic")]
           /\ call' = [op |-> "scene_pass", self |-> asset, before |-> subject.renderables,
                       res |-> out.res, updates |-> out.updates, log |-> out.log,
                       adds |-> out.adds]
    /\ UNCHANGED <<pipeVars, passVars>>

\* lookup_bin_from_asset(&mut self, id, gltf: &Gltf, asset) for the inline buffer of a
\* document, on a fresh BufferCache.
lookup_bin_call ==
    /\ subject.kind = "Blob"
    /\ \E asset \in {SceneAsset(GlbModel("b", "b.glb", "Basic"))} :
        \E out \in {lookup_bin_from_asset(NewBufferCache, build_buffer_id(SrcBinary(BufBin), asset.name),
                                          subject.val, asset)} :
           call' = [op |-> "lookup_bin_from_asset", self |-> subject.val,
                    res |-> out.res, bc |-> out.bc]
    /\ UNCHANGED <<pipeVars, passVars, subject>>

new_receiver_call ==
    /\ subject.kind = "Bus"
    /\ Len(subject.val.rxers) < MaxReceivers
    /\ subject' = [subject EXCEPT !.val = new_receiver(@),
                                  !.since = Append(@, Len(subject.sent)),
                                  !.got = Append(@, << >>)]
    /\ call' = [op |-> "new_receiver", self |-> subject.val]
    /\ UNCHANGED <<pipeVars, passVars>>

send_call(data) ==
    /\ subject.kind = "Bus"
    /\ Len(subject.sent) < MaxSends
    /\ subject' = [subject EXCEPT !.val = send(@, data), !.sent = Append(@, data)]
    /\ call' = [op |-> "send", self |-> subject.val, data |-> data]
    /\ UNCHANGED <<pipeVars, passVars>>

read_call(rx) ==
    /\ subject.kind = "Bus"
    /\ rx \in 1..Len(subject.val.rxers)
    /\ \E out \in {read(subject.val, rx)} :
          /\ subject' = [subject EXCEPT !.val = out.bus, !.got[rx] = @ \o out.ret]
          /\ call' = [op |-> "read", self |-> subject.val, rx |-> rx, ret |-> out.ret]
    /\ UNCHANGED <<pipeVars, passVars>>

\* AssetLoadModel::update, Msg::ReceivedGltf: response is "ok" (fetched and parsed),
\* "unparsed" (fetched, Gltf::from_slice failed) or "err" (the fetch failed).
ReceivedGltf(response) ==
    /\ subject.kind = "Load"
    /\ ~subject.trapped
    /\ [kind |-> "gltf", index |-> 0] \in subject.outstanding
    /\ LET buffer_fetches == FetchesFor("buffer", subject.doc.buffers)
           image_fetches == FetchesFor("image", subject.doc.images)
           op1 == [subject.val EXCEPT
                      !.gltf = Some(subject.doc),
                      !.pending = @ + Cardinality(buffer_fetches)
                                    + Cardinality(image_fetches) - 1]
           out == check_send(op1)
       IN IF response = "ok"
          THEN subject' = [subject EXCEPT
                              !.val = out.op,
                              !.sent = @ \o out.sent,
                              !.outstanding = buffer_fetches \cup image_fetches,
                              !.answered = @ \cup {[kind |-> "gltf", index |-> 0]}]
          ELSE subject' = [subject EXCEPT !.outstanding = {}]
    /\ call' = [op |-> "ReceivedGltf", self |-> subject.val, response |-> response]
    /\ UNCHANGED <<pipeVars, passVars>>

\* Msg::ReceivedBuffer(item, index, response)
ReceivedBuffer(index, response) ==
    /\ subject.kind = "Load"
    /\ ~subject.trapped
    /\ [kind |-> "buffer", index |-> index] \in subject.outstanding
    /\ LET fetch == [kind |-> "buffer", index |-> index]
           buffers == VecInsert(subject.val.buffers, index, BufferBytes(index))
           out == check_send([subject.val EXCEPT !.buffers = buffers.val,
                                                  !.pending = @ - 1])
       IN IF response = "err"
          THEN subject' = [subject EXCEPT !.outstanding = @ \ {fetch}]
          ELSE IF ~buffers.ok
          THEN subject' = [subject EXCEPT !.outstanding = @ \ {fetch},
                                          !.answered = @ \cup {fetch},
                                          !.trapped = TRUE]
          ELSE subject' = [subject EXCEPT !.val = out.op,
                                          !.sent = @ \o out.sent,
                                          !.outstanding = @ \ {fetch},
                                          !.answered = @ \cup {fetch}]
    /\ call' = [op |-> "ReceivedBuffer", self |-> subject.val, index |-> index,
                response |-> response]
    /\ UNCHANGED <<pipeVars, passVars>>

\* Msg::ReceivedImage(item, index, response); "bad": fetched bytes that do not decode.
ReceivedImage(index, response) ==
    /\ subject.kind = "Load"
    /\ ~subject.trapped
    /\ [kind |-> "image", index |-> index] \in subject.outstanding
    /\ LET fetch == [kind |-> "image", index |-> index]
           images == VecInsert(subject.val.images, index, ImageBytes_of(index, response))
           out == check_send([subject.val EXCEPT !.images = images.val,
                                                  !.pending = @ - 1])
       IN IF response = "err"
          THEN subject' = [subject EXCEPT !.outstanding = @ \ {fetch}]
          ELSE IF ~images.ok
          THEN subject' = [subject EXCEPT !.outstanding = @ \ {fetch},
                                          !.answered = @ \cup {fetch},
                                          !.trapped = TRUE]
          ELSE subject' = [subject EXCEPT !.val = out.op,
                                          !.sent = @ \o out.sent,
                                          !.outstanding = @ \ {fetch},
                                          !.answered = @ \cup {fetch}]
    /\ call' = [op |-> "ReceivedImage", self |-> subject.val, index |-> index,
                response |-> response]
    /\ UNCHANGED <<pipeVars, passVars>>

\* One call of get_new_uid, in either build, up to two calls past the counter's range;
\* with the mutex poisoned LAST_UID.lock().unwrap() panics.
get_new_uid_call ==
    /\ subject.kind = "Uid"
    /\ subject.calls <= UidModulus
    /\ \E overflow_checks \in BOOLEAN :
        \E out \in {get_new_uid(subject.last, overflow_checks)} :
           /\ subject' = IF subject.poisoned
                         THEN [subject EXCEPT !.calls = @ + 1]
                         ELSE [subject EXCEPT !.calls = @ + 1,
                                              !.last = out.last,
                                              !.poisoned = out.poisoned,
                                              !.returned = @ \o out.res]
           /\ call' = [op |-> "get_new_uid", self |-> subject.last,
                       res |-> IF subject.poisoned THEN None ELSE out.res]
    /\ UNCHANGED <<pipeVars, passVars>>

InitUnit ==
    /\ PipeInit
    /\ PassInit
    /\ subject \in Subjects
    /\ call = NoCall

NextUnit ==
    \/ \E file_list \in UnitFileLists : add_files_call(file_list)
    \/ set_complete_call
    \/ build_buffer_id_call
    \/ file_lists_call
    \/ pass_call
    \/ \E asset \in SceneAssets : scene_pass(asset)
    \/ lookup_bin_call
    \/ new_receiver_call
    \/ \E data \in {"New", "Update"} : send_call(data)
    \/ \E rx \in 1..MaxReceivers : read_call(rx)
    \/ get_new_uid_call
    \/ \E response \in {"ok", "unparsed", "err"} : ReceivedGltf(response)
    \/ \E index \in 0..(MaxFetches - 1), response \in {"ok", "err"} :
          ReceivedBuffer(index, response)
    \/ \E index \in 0..(MaxFetches - 1), response \in {"ok", "bad", "err"} :
          ReceivedImage(index, response)

\* Calls of single functions on values drawn from small sets, no pipeline running.
SpecUnit == InitUnit /\ [][NextUnit]_vars

\* ================================================================ claims

ByPipe(p) == SelectSeq(events, LAMBDA e : e.by = p)

ByName(n) == SelectSeq(events, LAMBDA e : e.name = n)

Kinds(s) == [i \in 1..Len(s) |-> s[i].kind]

\* New first and only first, Complete last and only last.
Lifecycle(kinds) ==
    \/ kinds = << >>
    \/ /\ kinds[1] = "New"
       /\ \A i \in 2..Len(kinds) : kinds[i] # "New"
       /\ \A i \in 1..Len(kinds) : kinds[i] = "Complete" => i = Len(kinds)

\* No other task has parsed a Config with the name of task p's Config.
AloneOnName(p) ==
    \A q \in Pipelines \ {p} : config[q] = NoConfig \/ config[q].name # config[p].name

\* The Asset a task leaves behind after its prompt phase, and after its last phase.
PostPrompt(cfg) == add_files(Asset_new(cfg.name, cfg), Fetched(get_prompt_files(cfg)))

PostDeferrable(cfg) ==
    set_complete(add_files(PostPrompt(cfg), Fetched(get_deferrable_files(cfg))))

\* C1 as stated: for every asset name the events published for it are New once, then
\* Updates, then Complete once; no second New or Complete for the name.
C1_PerNameLifecycle == \A n \in AssetNames : Lifecycle(Kinds(ByName(n)))

\* C1 amended: every task publishes, for the name of its Config, New once, then Update,
\* then Complete once, in this order (a failed task a prefix of that, a finished task
\* all three); per name this holds while a single task resolves to the name.
C1_PerPipelineLifecycle ==
    \A p \in Pipelines :
        /\ Lifecycle(Kinds(ByPipe(p)))
        /\ \A i \in 1..Len(ByPipe(p)) :
              /\ ByPipe(p)[i].name = config[p].name
              /\ ByPipe(p)[i].kind = "New" => ByPipe(p)[i].config = config[p]
        /\ pc[p] = "done" => Kinds(ByPipe(p)) = <<"New", "Update", "Complete">>
        /\ pc[p] \in {"idle", "config", "aborted"} => ByPipe(p) = << >>
        /\ (config[p] # NoConfig /\ AloneOnName(p)) =>
              Lifecycle(Kinds(ByName(config[p].name)))

\* Two tasks have finished, their events interleaved on the bus.
C1_Witness ==
    /\ \A p \in Pipelines : pc[p] = "done"
    /\ \E i, j, k \in 1..Len(events) :
          i < j /\ j < k /\ events[i].by = events[k].by /\ events[j].by # events[i].by

\* C2 as stated: a task whose prompt phase failed has published no New and has inserted
\* no Asset.
C2_NoNewOnPromptFailure ==
    \A p \in Pipelines :
        pc[p] = "failed_prompt" =>
            /\ p \notin inserted
            /\ \A i \in 1..Len(events) : ~(events[i].by = p /\ events[i].kind = "New")

\* C3 as stated: once a task's deferrable phase has failed, the Asset under its name is
\* in its post-prompt state (Incomplete, exactly the prompt files) in every later state.
C3_StaysPostPrompt ==
    \A p \in Pipelines :
        pc[p] = "failed_deferrable" => cache[config[p].name] = PostPrompt(config[p])

\* C3 amended: a task whose deferrable phase failed does nothing more (no fetch, no
\* cache write, no event: New and Update are all it published); the Asset stays in its
\* post-prompt state unless another task resolving to the same name writes to it.
C3_FailedDeferrableIsFinal ==
    /\ [](\A p \in Pipelines :
            pc[p] = "failed_deferrable" =>
                /\ Kinds(ByPipe(p)) = <<"New", "Update">>
                /\ AloneOnName(p) => cache[config[p].name] = PostPrompt(config[p]))
    /\ [][\A p \in Pipelines :
            pc[p] = "failed_deferrable" =>
                /\ pc'[p] = pc[p] /\ fetches'[p] = fetches[p] /\ config'[p] = config[p]
                /\ ByPipe(p)' = ByPipe(p)
                /\ AloneOnName(p)' => cache'[config[p].name] = cache[config[p].name]]_vars

C3_Witness ==
    \E p, q \in Pipelines :
        /\ pc[p] = "failed_deferrable"
        /\ pc[q] = "done"
        /\ AloneOnName(p)
        /\ cache[config[p].name].state = "Incomplete"
        /\ DOMAIN cache[config[p].name].files = Range(get_prompt_files(config[p]))

\* C4: a task whose Config fetch failed ends there: the step changes neither the cache
\* nor the bus, and the task has created no Asset, issued no fetch, published nothing.
C4_ConfigFailureAborts ==
    [][\A p \in Pipelines :
        pc'[p] = "aborted" =>
            /\ p \notin inserted'
            /\ ByPipe(p)' = << >>
            /\ fetches'[p] = << >>
            /\ config'[p] = NoConfig
            /\ pc[p] \in {"config", "aborted"}
            /\ pc[p] = "config" => (cache' = cache /\ events' = events)]_vars

C4_Witness ==
    \E p, q \in Pipelines :
        /\ pc[p] = "aborted"
        /\ pc[q] = "done"
        /\ is_complete(cache[config[q].name])

IsComplete(c, n) == c[n] # NoAsset /\ is_complete(c[n])

\* C5 as stated: once the Asset cached under a name is Complete it is Complete in every
\* later state, under any interleaving of tasks.
C5_NeverBack ==
    [][\A n \in AssetNames : IsComplete(cache, n) => IsComplete(cache', n)]_vars

\* C5 amended: an Asset is created Incomplete and is never removed; it becomes Complete
\* only in the step in which a task of its name finishes its deferrable phase, and that
\* step always leaves it Complete; a Complete Asset becomes Incomplete only when a task
\* resolving to the same name inserts a fresh Asset over it.
C5_CompleteUntilReinserted ==
    [][\A n \in AssetNames :
        /\ (cache[n] = NoAsset /\ cache'[n] # NoAsset) => cache'[n].state = "Incomplete"
        /\ cache[n] # NoAsset => cache'[n] # NoAsset
        /\ (~IsComplete(cache, n) /\ IsComplete(cache', n)) =>
              \E p \in Pipelines :
                  /\ config[p] # NoConfig /\ config[p].name = n
                  /\ pc[p] \in {"prompt", "deferrable"} /\ pc'[p] = "done"
                  /\ AllFetched(p) /\ ~AnyFailed(p)
                  /\ pc[p] = "prompt" => get_deferrable_files(config[p]) = << >>
        /\ (IsComplete(cache, n) /\ ~IsComplete(cache', n)) =>
              \E p \in Pipelines :
                  /\ pc[p] = "config" /\ pc'[p] = "prompt"
                  /\ cache'[n] = Asset_new(n, config'[p])
        /\ \A p \in Pipelines :
              (pc[p] # "done" /\ pc'[p] = "done") => IsComplete(cache', config[p].name)]_vars

\* An Asset is Incomplete again after the Complete event of its name was published.
C5_Witness ==
    \E n \in AssetNames :
        /\ cache[n] # NoAsset /\ ~is_complete(cache[n])
        /\ \E i \in 1..Len(events) : events[i].kind = "Complete" /\ events[i].name = n

\* The task that takes the step.
Actor(p) == pc'[p] # pc[p] \/ fetches'[p] # fetches[p]

\* What the task leaves under its name when it runs alone.
Alone(cfg, end) ==
    CASE end = "failed_prompt" -> Asset_new(cfg.name, cfg)
      [] end = "failed_deferrable" -> PostPrompt(cfg)
      [] end = "done" -> PostDeferrable(cfg)

\* C10: no step of a task changes the Asset cached under another name than its own, and
\* a task that is alone on its name leaves there the Asset it would leave running alone.
C10_CrossAssetIsolation ==
    [][\A p \in Pipelines :
        /\ Actor(p) =>
              \A n \in AssetNames :
                  (config'[p] = NoConfig \/ n # config'[p].name) => cache'[n] = cache[n]
        /\ (pc'[p] \in {"failed_prompt", "failed_deferrable", "done"} /\ AloneOnName(p)') =>
              cache'[config'[p].name] = Alone(config'[p], pc'[p])]_vars

\* Two tasks of different names have both ended, their steps interleaved.
C10_Witness ==
    /\ \A p \in Pipelines : pc[p] \in {"failed_deferrable", "done"}
    /\ \E p \in Pipelines : AloneOnName(p) /\ pc[p] = "done"
    /\ \E i, j, k \in 1..Len(events) :
          i < j /\ j < k /\ events[i].by = events[k].by /\ events[j].by # events[i].by

\* The Renderable and the primitive of the k-th update call of the last pass.
Updated(k) == registry[lastPass.updates[k].index]

PrimOf(r, asset) == get_gltf(asset).val.nodes[r.id.node_index + 1].mesh[1].primitives[1]

\* The file the index accessor of a primitive reads is not among the Asset's files.
IndexSourceAbsent(prim, gltf, asset) ==
    /\ prim.indices # None
    /\ prim.indices[1].view # None
    /\ LET source == gltf.buffers[prim.indices[1].view[1].buffer]
       IN source.kind = "Uri" /\ get_file(asset, source.uri) = None

IndexResolved(r) == r.indices # None /\ r.indices[1].buffer # None

\* C6 as stated: when the file of a Renderable's index buffer is absent from the Asset,
\* its update leaves the index field unresolved and does not fail while the Asset is
\* Incomplete, and fails with the missing-component error once the Asset is Complete.
C6_CompletionGating ==
    (lastPass.name # "" /\ get_gltf(lastPass.asset).ok) =>
        \A k \in 1..Len(lastPass.updates) :
            IndexSourceAbsent(PrimOf(Updated(k), lastPass.asset),
                              get_gltf(lastPass.asset).val, lastPass.asset) =>
                IF is_complete(lastPass.asset)
                THEN /\ ~lastPass.updates[k].res.ok
                     /\ lastPass.updates[k].res.err.kind = "MissingVal"
                ELSE /\ lastPass.updates[k].res.ok
                     /\ ~IndexResolved(Updated(k))

\* The Incomplete half of C6 alone.
C6_IncompleteHalf ==
    (lastPass.name # "" /\ get_gltf(lastPass.asset).ok /\ ~is_complete(lastPass.asset)) =>
        \A k \in 1..Len(lastPass.updates) :
            IndexSourceAbsent(PrimOf(Updated(k), lastPass.asset),
                              get_gltf(lastPass.asset).val, lastPass.asset) =>
                /\ lastPass.updates[k].res.ok
                /\ ~IndexResolved(Updated(k))

TextureAvailable(r) == r.base_color # None /\ r.base_color[1].status.kind = "Available"

\* C7: a Renderable stays in the registry, and an attribute buffer, an index buffer or
\* a base-color texture that is populated / Available is the same after every step,
\* passes that return an error included.
C7_MonotoneResolution ==
    [][\A i \in 1..Len(registry) :
        /\ i <= Len(registry')
        /\ registry'[i].id = registry[i].id
        /\ \A a \in DOMAIN registry[i].accessors :
              registry[i].accessors[a].buffer # None =>
                  /\ a \in DOMAIN registry'[i].accessors
                  /\ registry'[i].accessors[a].buffer = registry[i].accessors[a].buffer
        /\ IndexResolved(registry[i]) => registry'[i].indices = registry[i].indices
        /\ TextureAvailable(registry[i]) => registry'[i].base_color = registry[i].base_color]_vars

\* A repeated pass has returned an error over Renderables with populated buffers.
C7_Witness ==
    /\ ~lastPass.res.ok
    /\ lastPass.again
    /\ \E i \in 1..Len(registry) :
          /\ registry[i].parent_asset = lastPass.name
          /\ IndexResolved(registry[i])
          /\ \E a \in DOMAIN registry[i].accessors : registry[i].accessors[a].buffer # None

\* C8 as stated: a pass made right after a pass over the same Asset, nothing changed in
\* between, leaves the registry as it was and returns the result of the pass before.
C8_IdempotentReresolution ==
    [][(pipeVars' = pipeVars /\ lastPass'.again) =>
          (registry' = registry /\ lastPass'.res = lastPass.res)]_vars

\* The registry part of C8 alone, with the results compared by kind.
C8_SameRegistrySameKind ==
    [][(pipeVars' = pipeVars /\ lastPass'.again) =>
          /\ registry' = registry
          /\ lastPass'.res.ok = lastPass.res.ok
          /\ lastPass.res.ok => lastPass'.res = lastPass.res
          /\ ~lastPass.res.ok => lastPass'.res.err.kind = lastPass.res.err.kind]_vars

\* The buffer ids a Renderable holds: per accessor, for the index accessor, for the texture.
AccessorIds(r) == [a \in DOMAIN r.accessors |-> r.accessors[a].buffer_id]

TextureId(r) ==
    IF r.base_color = None THEN None
    ELSE IF r.base_color[1].status.kind = "Pending" THEN Some(r.base_color[1].status.id)
    ELSE Some(r.base_color[1].status.img.id)

\* The ids build_buffer_id gives the buffers and the images of an Asset's document.
DocumentIds(asset, op) ==
    LET gltf == get_gltf(asset).val
    IN IF op = "get_bin"
       THEN {build_buffer_id(SrcBinary(gltf.buffers[i]), asset.name) :
                i \in 1..Len(gltf.buffers)}
       ELSE {build_buffer_id(SrcImage(gltf.images[i]), asset.name) :
                i \in 1..Len(gltf.images)}

Lookups(pass) == {[op |-> pass.log[k].op, id |-> pass.log[k].id] : k \in 1..Len(pass.log)}

\* C9 as stated: the id of a source is the same in every pass, and a pass made after a
\* pass over the same Asset finds the ids it looks up in the BufferCache.
C9_SecondPassHits ==
    /\ \A k \in 1..Len(lastPass.log) :
          lastPass.log[k].id \in DocumentIds(lastPass.asset, lastPass.log[k].op)
    /\ lastPass.again => \A k \in 1..Len(lastPass.log) : lastPass.log[k].hit

\* C9 amended: the id of a source is the same in every pass (the ids a Renderable holds
\* never change, every id looked up is the id build_buffer_id gives a buffer or an
\* image of the document, a repeated pass looks up no new id); the BufferCache is new
\* in every pass, so in every pass the first lookup of an id is a miss.
C9_StableIdsFreshCache ==
    /\ [](\A k \in 1..Len(lastPass.log) :
            /\ lastPass.log[k].id \in DocumentIds(lastPass.asset, lastPass.log[k].op)
            /\ (\A j \in 1..(k - 1) :
                    lastPass.log[j].op # lastPass.log[k].op \/ lastPass.log[j].id # lastPass.log[k].id)
               => ~lastPass.log[k].hit)
    /\ [][/\ \A i \in 1..Len(registry) :
                /\ \A a \in DOMAIN registry[i].accessors :
                      /\ a \in DOMAIN registry'[i].accessors
                      /\ AccessorIds(registry'[i])[a] = AccessorIds(registry[i])[a]
                /\ (registry[i].indices # None /\ registry'[i].indices # None) =>
                      registry'[i].indices[1].buffer_id = registry[i].indices[1].buffer_id
                /\ (TextureId(registry[i]) # None /\ TextureId(registry'[i]) # None) =>
                      TextureId(registry'[i]) = TextureId(registry[i])
          /\ (pipeVars' = pipeVars /\ lastPass'.again) => Lookups(lastPass') \subseteq Lookups(lastPass)]_vars

\* A repeated pass has looked up, and missed, the ids of buffers resolved before it.
C9_Witness ==
    /\ lastPass.again
    /\ lastPass.res.ok
    /\ \E k \in 1..Len(lastPass.log) : ~lastPass.log[k].hit
    /\ \E i \in 1..Len(registry) :
          /\ registry[i].parent_asset = lastPass.name
          /\ IndexResolved(registry[i])
          /\ TextureAvailable(registry[i])

\* The task has ended on a failed fetch.
Failed(p) == pc[p] \in {"aborted", "failed_prompt", "failed_deferrable"}

\* C11: whatever the Hung task's fetches do (never completing included), a task whose
\* fetches all complete, none with an error, reaches its end with its Asset marked
\* Complete and its Complete event on the bus.
C11_HangStallsOnlyItself ==
    \A q \in Served :
        (pc[q] = "config") ~>
            (\/ Failed(q)
             \/ /\ pc[q] = "done"
                /\ events[Len(events)] = MsgComplete(q, config[q].name)
                /\ IsComplete(cache, config[q].name))

\* The Hung task waits on a fetch that has not completed; another task is done.
C11_Witness ==
    /\ pc[Hung] = "prompt"
    /\ \E i \in 1..Len(fetches[Hung]) : fetches[Hung][i] = "pending"
    /\ \E q \in Served :
          /\ pc[q] = "done"
          /\ config[q].name # config[Hung].name
          /\ IsComplete(cache, config[q].name)
          /\ events[Len(events)] = MsgComplete(q, config[q].name)

\* The Asset holds the bytes the server has for every file of the list.
Holds(asset, file_list) ==
    \A f \in Range(file_list) : get_file(asset, f) = Some(FileBytes(f))

Finishes(p) == pc[p] # "done" /\ pc'[p] = "done"

\* C12 as stated: a pipeline whose fetches all succeed ends with the Asset cached under
\* its name Complete and holding every prompt and every deferrable file of its Config.
C12_EndsWithAllFiles ==
    [][\A p \in Pipelines :
        Finishes(p) =>
            /\ IsComplete(cache', config[p].name)
            /\ Holds(cache'[config[p].name], get_prompt_files(config[p]))
            /\ Holds(cache'[config[p].name], get_deferrable_files(config[p]))]_vars

\* C12 amended: a pipeline whose fetches all complete terminates, and when none of them
\* failed it ends with the Asset cached under its name Complete, holding every
\* deferrable file, and with Complete(name) sent when the state was already set; the
\* Asset holds every prompt file too when no other pipeline resolved to the same name.
C12_TerminatesComplete ==
    /\ \A q \in Served :
          (pc[q] = "config") ~> (pc[q] \in {"aborted", "failed_prompt", "failed_deferrable", "done"})
    /\ [][\A p \in Pipelines :
            /\ Finishes(p) =>
                  /\ ~AnyFailed(p) /\ AllFetched(p)
                  /\ IsComplete(cache', config[p].name)
                  /\ Holds(cache'[config[p].name], get_deferrable_files(config[p]))
                  /\ events' = Append(events, MsgComplete(p, config[p].name))
                     \/ events' = events \o <<MsgUpdate(p, config[p].name),
                                             MsgComplete(p, config[p].name)>>
                  /\ AloneOnName(p) => cache'[config[p].name] = PostDeferrable(config[p])
            /\ (Len(ByPipe(p)') > Len(ByPipe(p)) /\ events'[Len(events')].kind = "Complete") =>
                  (Finishes(p) /\ IsComplete(cache', events'[Len(events')].name))
            /\ (pc[p] \in {"prompt", "deferrable"} /\ pc'[p] # pc[p] /\ ~AnyFailed(p)) =>
                  pc'[p] \in {"deferrable", "done"}]_vars

\* A task alone on its name is done; its Asset holds prompt and deferrable files.
C12_Witness ==
    \E q \in Served :
        /\ pc[q] = "done"
        /\ AloneOnName(q)
        /\ get_deferrable_files(config[q]) # << >>
        /\ cache[config[q].name] = PostDeferrable(config[q])
        /\ Holds(cache[config[q].name], get_prompt_files(config[q]) \o get_deferrable_files(config[q]))

IsGlb(p) == config[p] # NoConfig /\ config[p].type = "glb_model"

\* C13: a task with a glb_model Config fetches its root file and nothing else, is never
\* at a deferrable join, and the step that attaches the root file is the step that
\* marks the Asset Complete and sends Complete(name), right after Update(name).
C13_GlbCompletesAtOnce ==
    [][\A p \in Pipelines :
        IsGlb(p)' =>
            /\ pc'[p] \notin {"deferrable", "failed_deferrable"}
            /\ pc'[p] = "prompt" =>
                  /\ Len(fetches'[p]) = 1
                  /\ get_prompt_files(config'[p]) = <<config'[p].gl_root>>
            /\ (AloneOnName(p)' /\ get_file(cache'[config'[p].name], config'[p].gl_root) # None)
                  => pc'[p] = "done"
            /\ (pc[p] = "prompt" /\ pc'[p] \notin {"prompt", "failed_prompt"}) =>
                  /\ pc'[p] = "done"
                  /\ events' = events \o <<MsgUpdate(p, config[p].name),
                                          MsgComplete(p, config[p].name)>>
                  /\ cache'[config[p].name] =
                        set_complete(add_files(cache[config[p].name],
                                               <<<<config[p].gl_root, FileBytes(config[p].gl_root)>>>>))]_vars

\* The glb task is done while the other task is still fetching.
C13_Witness ==
    \E p, q \in Pipelines :
        /\ IsGlb(p)
        /\ pc[p] = "done"
        /\ DOMAIN cache[config[p].name].files = {config[p].gl_root}
        /\ is_complete(cache[config[p].name])
        /\ pc[q] \in {"prompt", "deferrable"}

\* The last value a file list gives for a name.
LastFor(file_list, f) ==
    file_list[CHOOSE i \in 1..Len(file_list) :
                /\ file_list[i][1] = f
                /\ \A j \in (i + 1)..Len(file_list) : file_list[j][1] # f][2]

ListNames(file_list) == {file_list[i][1] : i \in 1..Len(file_list)}

\* C14: after add_files every name of the list maps to the last bytes the list gives
\* for it, whether or not the name was present before; every other entry, the name,
\* the config and the state of the Asset are as before the call.
C14_AddFilesOverwrites ==
    call.op = "add_files" =>
        /\ subject.val.name = call.self.name
        /\ subject.val.config = call.self.config
        /\ subject.val.state = call.self.state
        /\ DOMAIN subject.val.files = DOMAIN call.self.files \cup ListNames(call.file_list)
        /\ \A f \in DOMAIN subject.val.files :
              subject.val.files[f] =
                  IF f \in ListNames(call.file_list)
                  THEN LastFor(call.file_list, f)
                  ELSE call.self.files[f]

\* add_files has replaced the bytes of a present name on a Complete Asset that holds
\* another file too.
C14_Witness ==
    /\ call.op = "add_files"
    /\ is_complete(subject.val)
    /\ \E f \in ListNames(call.file_list) \cap DOMAIN call.self.files :
          subject.val.files[f] # call.self.files[f]
    /\ \E g \in DOMAIN call.self.files : g \notin ListNames(call.file_list)

\* C15: within one asset two different logical sources never get the same buffer id
\* from build_buffer_id.
C15_IdsCollisionFree ==
    call.op = "build_buffer_id" =>
        (call.self[1] # call.self[2] => call.ids[1] # call.ids[2])

\* Two different sources get the same id only when both are images backed by buffer
\* views and the views' names, "unk" for a view without one, are equal.
C15_OnlyViewImagesCollide ==
    (/\ call.op = "build_buffer_id"
     /\ call.self[1] # call.self[2]
     /\ call.ids[1] = call.ids[2])
        => \A i \in 1..2 :
              /\ call.self[i].tag = "Image"
              /\ call.self[i].source.kind = "View"
              /\ UnwrapOr(call.self[i].source.view.name, "unk")
                     = UnwrapOr(call.self[1].source.view.name, "unk")

\* C17: the prompt list is the root followed by prompt_files in order, the deferrable
\* list is deferrable_files; for a glb_model the prompt list is the root alone and the
\* deferrable list is empty; the full list is the prompt list followed by the
\* deferrable list.
C17_FileLists ==
    call.op = "file_lists" =>
        /\ Len(call.prompt) >= 1
        /\ Head(call.prompt) = call.self.gl_root
        /\ call.self.type = "gltf_model" =>
              /\ Tail(call.prompt) = call.self.prompt_files
              /\ call.deferrable = call.self.deferrable_files
        /\ call.self.type = "glb_model" =>
              /\ Len(call.prompt) = 1
              /\ call.deferrable = << >>
        /\ call.all = call.prompt \o call.deferrable

\* The lists of a gltf_model with two prompt files and a deferrable file were computed.
C17_Witness ==
    /\ call.op = "file_lists"
    /\ call.self.type = "gltf_model"
    /\ Len(call.self.prompt_files) = 2
    /\ call.self.prompt_files[1] # call.self.prompt_files[2]
    /\ Len(call.self.deferrable_files) >= 1
    /\ Len(call.all) >= 4

\* The lists of a glb_model were computed.
C17_WitnessGlb ==
    /\ call.op = "file_lists"
    /\ call.self.type = "glb_model"
    /\ call.all = <<call.self.gl_root>>

\* C16: update_renderables_from_asset never returns NotYet, whatever the state of the
\* Asset and whichever of its files are present; nor does any Renderable::update call
\* it makes.
C16_NeverNotYet ==
    call.op = "update_renderables_from_asset" =>
        /\ ~call.res.ok => call.res.err.kind # "NotYet"
        /\ \A i \in 1..Len(call.updates) :
              ~call.updates[i].res.ok => call.updates[i].res.err.kind # "NotYet"

\* The same of the passes the renderer makes beside a running pipeline.
C16_PassNeverNotYet ==
    /\ ~lastPass.res.ok => lastPass.res.err.kind # "NotYet"
    /\ \A i \in 1..Len(lastPass.updates) :
          ~lastPass.updates[i].res.ok => lastPass.updates[i].res.err.kind # "NotYet"

\* A pass over an incomplete Asset that lacks a buffer file returned success and left
\* an attribute without its buffer.
C16_Witness ==
    /\ call.op = "update_renderables_from_asset"
    /\ ~is_complete(call.self)
    /\ call.res.ok
    /\ \E i \in 1..Len(subject.renderables) :
          \E attr \in DOMAIN subject.renderables[i].accessors :
              subject.renderables[i].accessors[attr].buffer = None

\* A pass over a Complete Asset that lacks a file returned MissingVal.
C16_WitnessComplete ==
    /\ call.op = "update_renderables_from_asset"
    /\ is_complete(call.self)
    /\ ~call.res.ok
    /\ call.res.err = missing_val("asset is complete but missing component").err

\* C18: every Config held by a cached Asset has a gl_root that ends in .gltf when it
\* is a gltf_model and in .glb when it is a glb_model.
C18_CachedConfigsVerified ==
    \A n \in AssetNames : cache[n] # NoAsset => verify_config_contents(cache[n].config)

\* Every cached Config is the manifest the server answered, as it was parsed.
C18_CachedConfigIsManifest ==
    \A n \in AssetNames :
        cache[n] # NoAsset => \E u \in ConfigUrls : cache[n].config = ServerConfig(u)

\* Task p publishes an event of the kind in this step.
Sends(p, kind) ==
    \E i \in (Len(events) + 1)..Len(events') : events'[i].by = p /\ events'[i].kind = kind

\* Every fetch of the list is the task's current phase and has completed with Ok.
Barrier(p, file_list) ==
    /\ Len(fetches[p]) = Len(file_list)
    /\ \A i \in 1..Len(fetches[p]) : fetches[p][i] = "ok"

\* C19: a task publishes Update only in a step that finds every prompt fetch completed
\* and leaves their bytes in the Asset; its deferrable fetches start in that step and
\* not before; it publishes Complete only in a step that finds every deferrable fetch
\* completed and leaves their bytes in the Asset.
C19_PhaseBarrier ==
    [][\A p \in Pipelines :
          /\ Sends(p, "Update") =>
                /\ pc[p] = "prompt"
                /\ Barrier(p, get_prompt_files(config[p]))
                /\ Holds(cache'[config[p].name], get_prompt_files(config[p]))
          /\ (pc[p] # "deferrable" /\ pc'[p] = "deferrable") =>
                /\ Sends(p, "Update")
                /\ fetches'[p] = AllPending(get_deferrable_files(config[p]))
          /\ pc[p] \in {"config", "prompt"} =>
                Len(fetches[p]) = IF pc[p] = "config" THEN 0
                                  ELSE Len(get_prompt_files(config[p]))
          /\ Sends(p, "Complete") =>
                /\ \/ pc[p] = "deferrable" /\ Barrier(p, get_deferrable_files(config[p]))
                   \/ /\ Sends(p, "Update")
                      /\ get_deferrable_files(config[p]) = << >>
                /\ Holds(cache'[config[p].name], get_deferrable_files(config[p]))
                /\ IsComplete(cache', config[p].name)]_vars

\* A task with three prompt files and a deferrable file has run to its end while its
\* neighbour was between its phases.
C19_Witness ==
    \E p \in Pipelines :
        /\ url[p] = "c.json"
        /\ pc[p] = "done"
        /\ \E q \in Pipelines \ {p} : pc[q] = "deferrable"
        /\ events[Len(events)] = MsgComplete(p, "c")

\* The buffer file an id stands for is named by the document and absent from the Asset:
\* the lookup of the id raises NotYet.
BinNotYet(id, gltf, asset) ==
    \E i \in 1..Len(gltf.buffers) :
        /\ gltf.buffers[i].kind = "Uri"
        /\ id = build_buffer_id(SrcBinary(gltf.buffers[i]), asset.name)
        /\ get_file(asset, gltf.buffers[i].uri) = None

ImgNotYet(id, gltf, asset) ==
    \E i \in 1..Len(gltf.images) :
        /\ gltf.images[i].kind = "Uri"
        /\ id = build_buffer_id(SrcImage(gltf.images[i]), asset.name)
        /\ get_file(asset, gltf.images[i].uri) = None

AttributePending(r, a, gltf, asset) ==
    r.accessors[a].buffer = None /\ BinNotYet(r.accessors[a].buffer_id, gltf, asset)

TexturePending(r, gltf, asset) ==
    /\ r.base_color # None
    /\ r.base_color[1].status.kind = "Pending"
    /\ ImgNotYet(r.base_color[1].status.id, gltf, asset)

\* The id of the buffer the index accessor of a Renderable is carved out of.
IndexSourceId(r, gltf, asset) ==
    build_buffer_id(
        SrcBinary(gltf.buffers[PrimOf(r, asset).indices[1].view[1].buffer]), asset.name)

\* After a pass over an incomplete Asset: an update whose attribute, index or texture
\* is unresolved for lack of its file has returned Ok.
SwallowedNotYet ==
    (lastPass.name # "" /\ get_gltf(lastPass.asset).ok /\ ~is_complete(lastPass.asset)) =>
        \A k \in 1..Len(lastPass.updates) :
            LET r == Updated(k)
                gltf == get_gltf(lastPass.asset).val
            IN  (\/ \E a \in DOMAIN r.accessors : AttributePending(r, a, gltf, lastPass.asset)
                 \/ TexturePending(r, gltf, lastPass.asset)
                 \/ (~IndexResolved(r)
                       /\ IndexSourceAbsent(PrimOf(r, lastPass.asset), gltf, lastPass.asset)))
                    => lastPass.updates[k].res.ok

\* The Renderable is new in this step, or the field was unresolved before it.
AttributeOpen(i, a) ==
    \/ i > Len(registry)
    \/ a \notin DOMAIN registry[i].accessors
    \/ registry[i].accessors[a].buffer = None

IndexOpen(i) == i > Len(registry) \/ ~IndexResolved(registry[i])

TextureOpen(i) == i > Len(registry) \/ ~TextureAvailable(registry[i])

\* A pass over an incomplete Asset leaves unresolved every field that was unresolved
\* and whose file is absent.
StaysUnresolved ==
    (/\ pipeVars' = pipeVars
     /\ lastPass'.name # ""
     /\ get_gltf(lastPass'.asset).ok
     /\ ~is_complete(lastPass'.asset)) =>
        \A k \in 1..Len(lastPass'.updates) :
            LET i == lastPass'.updates[k].index
                r == registry'[i]
                gltf == get_gltf(lastPass'.asset).val
            IN  /\ \A a \in DOMAIN r.accessors :
                      (AttributeOpen(i, a)
                         /\ BinNotYet(r.accessors[a].buffer_id, gltf, lastPass'.asset))
                          => r.accessors[a].buffer = None
                /\ (IndexOpen(i)
                      /\ IndexSourceAbsent(PrimOf(r, lastPass'.asset), gltf, lastPass'.asset))
                      => ~IndexResolved(r)
                /\ (TextureOpen(i) /\ r.base_color # None
                      /\ ImgNotYet(TextureId(r)[1], gltf, lastPass'.asset))
                      => r.base_color[1].status.kind = "Pending"

\* A pass over an incomplete Asset looks up again every field it finds unresolved in a
\* Renderable it updates.
RetriedNextPass ==
    (/\ pipeVars' = pipeVars
     /\ lastPass'.name # ""
     /\ get_gltf(lastPass'.asset).ok
     /\ ~is_complete(lastPass'.asset)) =>
        \A k \in 1..Len(lastPass'.updates) :
            LET i == lastPass'.updates[k].index
                gltf == get_gltf(lastPass'.asset).val
            IN  i <= Len(registry) =>
                  /\ \A a \in DOMAIN registry[i].accessors :
                        registry[i].accessors[a].buffer = None =>
                            [op |-> "get_bin", id |-> registry[i].accessors[a].buffer_id]
                                \in Lookups(lastPass')
                  /\ (registry[i].indices # None /\ ~IndexResolved(registry[i])) =>
                        [op |-> "get_bin", id |-> IndexSourceId(registry[i], gltf, lastPass'.asset)]
                            \in Lookups(lastPass')
                  /\ (registry[i].base_color # None
                        /\ registry[i].base_color[1].status.kind = "Pending") =>
                        [op |-> "get_image", id |-> registry[i].base_color[1].status.id]
                            \in Lookups(lastPass')

\* C20: while the Asset is incomplete a file missing for an attribute, the index buffer
\* or the texture does not fail the Renderable's update: it returns Ok, the field stays
\* unresolved, and the next pass looks the field up again.
C20_NotYetSwallowed ==
    []SwallowedNotYet /\ [][StaysUnresolved]_vars /\ [][RetriedNextPass]_vars

\* A repeated pass over an incomplete Asset returned Ok with an attribute and the
\* texture still waiting for their files.
C20_Witness ==
    /\ lastPass.name # ""
    /\ lastPass.again
    /\ ~is_complete(lastPass.asset)
    /\ lastPass.res.ok
    /\ \E k \in 1..Len(lastPass.updates) :
          /\ \E a \in DOMAIN Updated(k).accessors :
                AttributePending(Updated(k), a, get_gltf(lastPass.asset).val, lastPass.asset)
          /\ TexturePending(Updated(k), get_gltf(lastPass.asset).val, lastPass.asset)

\* The base-color image of a Renderable's primitive is a file absent from the Asset.
TextureFileAbsent(r, gltf, asset) ==
    /\ PrimOf(r, asset).texture # None
    /\ LET image == gltf.images[PrimOf(r, asset).texture[1].image]
       IN image.kind = "Uri" /\ get_file(asset, image.uri) = None

MissingComponent(res) ==
    /\ ~res.ok
    /\ res.err.kind = "MissingVal"
    /\ \E name \in {""} \cup {r.id.name \o ": " : r \in Range(subject.renderables)} :
          res.err.msg = name \o "asset is complete but missing component"

\* C21: on a Complete Asset an update that finds an attribute or the base-color
\* texture unresolved for lack of its file returns the missing-component error, and
\* the resolver returns that error.
C21_CompleteIsFatal ==
    (/\ call.op = "update_renderables_from_asset"
     /\ get_gltf(call.self).ok
     /\ is_complete(call.self)) =>
        \A k \in 1..Len(call.updates) :
            LET r == subject.renderables[call.updates[k].index]
                gltf == get_gltf(call.self).val
            IN  (\/ \E a \in DOMAIN r.accessors : AttributePending(r, a, gltf, call.self)
                 \/ (~TextureAvailable(r) /\ TextureFileAbsent(r, gltf, call.self)))
                    => /\ MissingComponent(call.updates[k].res)
                       /\ call.res = call.updates[k].res

\* A Complete Asset holds every buffer file but not the image: the update resolved the
\* attributes and returned the missing-component error for the texture.
C21_Witness ==
    /\ call.op = "update_renderables_from_asset"
    /\ is_complete(call.self)
    /\ get_gltf(call.self).ok
    /\ \E k \in 1..Len(call.updates) :
          LET r == subject.renderables[call.updates[k].index]
          IN /\ TextureFileAbsent(r, get_gltf(call.self).val, call.self)
             /\ DOMAIN r.accessors # {}
             /\ \A a \in DOMAIN r.accessors : r.accessors[a].buffer # None
             /\ MissingComponent(call.res)
             /\ r.base_color = None

\* A Complete Asset lacks a buffer file: the attribute loop returned the error.
C21_WitnessAttribute ==
    /\ call.op = "update_renderables_from_asset"
    /\ is_complete(call.self)
    /\ get_gltf(call.self).ok
    /\ call.res = missing_val("asset is complete but missing component")
    /\ \E k \in 1..Len(call.updates) :
          LET r == subject.renderables[call.updates[k].index]
          IN \E a \in DOMAIN r.accessors :
                AttributePending(r, a, get_gltf(call.self).val, call.self)

\* The registry indices of the Renderables of an asset.
OfAsset(regs, asset_name) == {i \in 1..Len(regs) : regs[i].parent_asset = asset_name}

UpdatedIndices(updates) == {updates[k].index : k \in 1..Len(updates)}

\* C22: an error of one Renderable's update leaves the other Renderables of the asset
\* to be updated in the same pass: every Renderable of the asset is updated in every
\* pass over it.
C22_OthersStillUpdated ==
    (call.op = "scene_pass" /\ get_gltf(call.self).ok) =>
        OfAsset(subject.renderables, call.self.name) \subseteq UpdatedIndices(call.updates)

\* What the code does: the first update that returns an error ends the pass, the pass
\* returns that error, and no Renderable after it is updated.
C22_FirstErrorEndsThePass ==
    (call.op = "scene_pass" /\ get_gltf(call.self).ok) =>
        /\ \A k \in 1..(Len(call.updates) - 1) : call.updates[k].res.ok
        /\ call.res.ok =>
              OfAsset(subject.renderables, call.self.name) = UpdatedIndices(call.updates)
        /\ ~call.res.ok =>
              /\ call.updates # << >>
              /\ call.res = call.updates[Len(call.updates)].res
              /\ \A i \in OfAsset(subject.renderables, call.self.name) :
                    i > call.updates[Len(call.updates)].index =>
                        /\ i \notin UpdatedIndices(call.updates)
                        /\ \/ i > Len(call.before)
                              /\ subject.renderables[i]
                                    = Renderable_new(call.self, subject.renderables[i].id)
                           \/ i <= Len(call.before)
                              /\ subject.renderables[i] = call.before[i]

NodeOf(r, asset) == get_gltf(asset).val.nodes[r.id.node_index + 1]

\* The id of the image of a primitive's base-color texture.
TextureTarget(prim, gltf, asset) ==
    build_buffer_id(SrcImage(gltf.images[prim.texture[1].image]), asset.name)

\* C23: in the update of one Renderable the index and the texture are attempted
\* whatever became of the steps before them: a primitive with an index accessor gets
\* its index accessor, and the image of a primitive with a texture is looked up, in
\* every update of a Renderable that lacks them.
C23_AllAttempted ==
    (call.op = "scene_pass" /\ get_gltf(call.self).ok) =>
        \A k \in 1..Len(call.updates) :
            LET i == call.updates[k].index
                r == subject.renderables[i]
                gltf == get_gltf(call.self).val
            IN  NodeOf(r, call.self).mesh # None =>
                  /\ PrimOf(r, call.self).indices # None => r.indices # None
                  /\ (PrimOf(r, call.self).texture # None
                        /\ (i > Len(call.before) \/ ~TextureAvailable(call.before[i])))
                        => [op |-> "get_image",
                            id |-> TextureTarget(PrimOf(r, call.self), gltf, call.self)]
                               \in Lookups(call)

\* What holds: the texture is looked up only in an update that returns Ok or fails in
\* the texture step itself, after attributes and index went through.
C23_TextureComesLast ==
    (call.op = "scene_pass" /\ get_gltf(call.self).ok) =>
        \A k \in 1..Len(call.updates) :
            LET i == call.updates[k].index
                r == subject.renderables[i]
            IN  (NodeOf(r, call.self).mesh # None
                   /\ PrimOf(r, call.self).indices = None)
                    => /\ call.updates[k].res = missing_val("Prim missing indices")
                       /\ r.base_color = None

\* C24: after a pass over an asset the registry has an entry for a node of the asset
\* if and only if the node bears a mesh.
C24_OnlyMeshNodes ==
    (call.op = "scene_pass" /\ get_gltf(call.self).ok) =>
        LET nodes == get_gltf(call.self).val.nodes
        IN \A n \in 1..Len(nodes) :
              (\E i \in OfAsset(subject.renderables, call.self.name) :
                    subject.renderables[i].id.node_index = n - 1)
                <=> nodes[n].mesh # None

\* What the code does: every node, with a mesh or without, has an entry of its id's
\* name after the pass, and the update of the entry of a node without a mesh panics.
C24_EveryNodeThenPanic ==
    (call.op = "scene_pass" /\ get_gltf(call.self).ok) =>
        /\ \A n \in 1..Len(get_gltf(call.self).val.nodes) :
              \E i \in 1..Len(subject.renderables) :
                  subject.renderables[i].id.name
                      = RenderableId_new(call.self.name,
                                         get_gltf(call.self).val.nodes[n], n - 1).name
        /\ \A k \in 1..Len(call.updates) :
              NodeOf(subject.renderables[call.updates[k].index], call.self).mesh = None
                  => /\ call.updates[k].res = Panic("No mesh for node!")
                     /\ subject.trapped

\* C25: after a pass over asset A every mesh-bearing node of A has a registry entry
\* with parent_asset = A and the node's RenderableId, whatever the registry held
\* before; RenderableIds of different (asset name, node index) pairs are different.
C25_DedupScopedToAsset ==
    (call.op = "scene_pass" /\ get_gltf(call.self).ok) =>
        LET nodes == get_gltf(call.self).val.nodes
        IN /\ \A n \in 1..Len(nodes) :
                 nodes[n].mesh # None =>
                    \E i \in OfAsset(subject.renderables, call.self.name) :
                        subject.renderables[i].id
                            = RenderableId_new(call.self.name, nodes[n], n - 1)
           /\ \A i, j \in 1..Len(subject.renderables) :
                 i # j => subject.renderables[i].id # subject.renderables[j].id

\* What the code does: the registry is searched by id.name alone, over the entries of
\* every asset: after a pass every node of the asset has an entry of that name, of
\* whatever parent, and no two entries have the same name.
C25_DedupByNameAlone ==
    (call.op = "scene_pass" /\ get_gltf(call.self).ok) =>
        LET nodes == get_gltf(call.self).val.nodes
        IN /\ \A n \in 1..Len(nodes) :
                 \E i \in 1..Len(subject.renderables) :
                     subject.renderables[i].id.name
                         = RenderableId_new(call.self.name, nodes[n], n - 1).name
           /\ \A i, j \in 1..Len(subject.renderables) :
                 i # j => subject.renderables[i].id.name # subject.renderables[j].id.name

\* C26 as stated: the registry never holds two Renderables of one parent asset for one
\* node index.
C26_OnePerNode ==
    subject.kind = "Scene" =>
        \A i, j \in 1..Len(subject.renderables) :
            (i # j /\ subject.renderables[i].parent_asset = subject.renderables[j].parent_asset)
                => subject.renderables[i].id.node_index # subject.renderables[j].id.node_index

\* The ids of the nodes of an Asset's document, in node order.
NodeIds(asset) ==
    [n \in 1..Len(get_gltf(asset).val.nodes) |->
        RenderableId_new(asset.name, get_gltf(asset).val.nodes[n], n - 1)]

\* C26 amended: the registry never holds two Renderables of one parent asset with one
\* id; a pass inserts one entry for each node whose id it does not find and none for
\* the others, so a pass over a document that has been passed over inserts nothing.
\* (A node index of an asset has one entry only while the documents handed over under
\* the asset's name give the node the same name.)
C26_OnePerId ==
    /\ subject.kind = "Scene" =>
          \A i, j \in 1..Len(subject.renderables) :
              (i # j /\ subject.renderables[i].parent_asset = subject.renderables[j].parent_asset)
                  => subject.renderables[i].id # subject.renderables[j].id
    /\ (call.op = "scene_pass" /\ get_gltf(call.self).ok) =>
          /\ SubSeq(subject.renderables, 1, Len(call.before))
                = [i \in 1..Len(call.before) |->
                      [subject.renderables[i] EXCEPT !.id = call.before[i].id,
                                                     !.parent_asset = call.before[i].parent_asset]]
          /\ [i \in 1..(Len(subject.renderables) - Len(call.before)) |->
                  subject.renderables[Len(call.before) + i].id]
                = SelectSeq(NodeIds(call.self),
                            LAMBDA n : \A j \in 1..Len(call.before) :
                                           call.before[j].id.name # n.name)

\* A pass over an asset with two nodes, made again with the Renderables of another
\* asset in the registry, has inserted nothing.
C26_Witness ==
    /\ call.op = "scene_pass"
    /\ call.res.ok
    /\ Len(NodeIds(call.self)) = 2
    /\ Len(call.before) = Len(subject.renderables)
    /\ Cardinality(OfAsset(subject.renderables, call.self.name)) = 2
    /\ \E i \in 1..Len(subject.renderables) :
          subject.renderables[i].parent_asset # call.self.name

\* The primitive's base-color texture has a view-backed image.
ViewBacked(prim, gltf) ==
    prim.texture # None /\ gltf.images[prim.texture[1].image].kind = "View"

\* The id under which the raw buffer of a view-backed image is cached.
ViewSourceId(prim, gltf, asset) ==
    build_buffer_id(SrcBinary(gltf.buffers[gltf.images[prim.texture[1].image].view.buffer]),
                    asset.name)

\* The pass found the buffer in its BufferCache.
FoundInCache(c, id) ==
    \E l \in 1..Len(c.log) : c.log[l] = [op |-> "get_bin", id |-> id, hit |-> TRUE]

\* C27: a Renderable whose base-color image is view-backed, updated in a pass whose
\* BufferCache holds the image's source raw buffer, has its texture Available, and the
\* update returns no error.
C27_ViewImageAvailable ==
    (call.op = "scene_pass" /\ get_gltf(call.self).ok) =>
        \A k \in 1..Len(call.updates) :
            LET r == subject.renderables[call.updates[k].index]
                gltf == get_gltf(call.self).val
            IN  (/\ NodeOf(r, call.self).mesh # None
                 /\ ViewBacked(PrimOf(r, call.self), gltf)
                 /\ FoundInCache(call, ViewSourceId(PrimOf(r, call.self), gltf, call.self)))
                    => /\ TextureAvailable(r)
                       /\ call.updates[k].res.ok

\* What holds: the id of the cached buffer is never the id of the image, so the lookup
\* of a view-backed image ends the update with a missing-value error and the texture
\* stays unresolved.
C27_ViewImageNeverResolves ==
    (call.op = "scene_pass" /\ get_gltf(call.self).ok) =>
        \A k \in 1..Len(call.updates) :
            LET r == subject.renderables[call.updates[k].index]
                gltf == get_gltf(call.self).val
            IN  (/\ NodeOf(r, call.self).mesh # None
                 /\ ViewBacked(PrimOf(r, call.self), gltf)
                 /\ FoundInCache(call, ViewSourceId(PrimOf(r, call.self), gltf, call.self)))
                    => /\ r.base_color = None
                       /\ call.updates[k].res = missing_val("Binary source buffer doesn't match!")

\* C28: a pass over an Asset that has no file under the root name of its Config
\* returns the missing-value error of get_gltf and leaves the registry as it was.
C28_NoRootNoChange ==
    /\ (call.op = "scene_pass" /\ get_file(call.self, call.self.config.gl_root) = None)
          => /\ call.res = missing_val("No gl root file in asset!")
             /\ subject.renderables = call.before
             /\ call.updates = << >>
    /\ (call.op = "update_renderables_from_asset"
          /\ get_file(call.self, call.self.config.gl_root) = None)
          => /\ call.res = missing_val("No gl root file in asset!")
             /\ call.updates = << >>

\* A pass over an Asset that holds files but not its root file, made while the
\* registry holds Renderables.
C28_Witness ==
    /\ call.op = "scene_pass"
    /\ get_file(call.self, call.self.config.gl_root) = None
    /\ DOMAIN call.self.files # {}
    /\ call.before # << >>
    /\ ~call.res.ok

\* C29: a pass that returns Ok returns the indices of the Renderables whose parent
\* asset is the Asset of the pass, those and no others, each once.
C29_ReturnsParentIndices ==
    (call.op \in {"scene_pass", "update_renderables_from_asset"} /\ call.res.ok) =>
        /\ {call.res.val[k] : k \in 1..Len(call.res.val)}
              = OfAsset(subject.renderables, call.self.name)
        /\ \A k, l \in 1..Len(call.res.val) : k # l => call.res.val[k] # call.res.val[l]

\* A pass returned two indices out of a registry that also holds Renderables of
\* another asset, placed before them.
C29_Witness ==
    /\ call.op = "scene_pass"
    /\ call.res.ok
    /\ Len(call.res.val) = 2
    /\ call.res.val[1] > 1
    /\ Len(subject.renderables) > 2

\* The lookup that an insertion answers.
LookupOf(op) == IF op = "add_bin" THEN "get_bin" ELSE "get_image"

\* C30: in one pass no add_bin or add_image replaces an entry of the BufferCache, no id
\* is inserted twice, and every lookup of an id made after its insertion is answered
\* by the cache.
C30_NoOverwriteInPass ==
    call.op \in {"scene_pass", "update_renderables_from_asset"} =>
        /\ \A k \in 1..Len(call.adds) : ~call.adds[k].overwritten
        /\ \A k, l \in 1..Len(call.adds) :
              k # l => (call.adds[k].op # call.adds[l].op \/ call.adds[k].id # call.adds[l].id)
        /\ \A k \in 1..Len(call.adds) : \A l \in 1..Len(call.log) :
              (/\ l > call.adds[k].at
               /\ call.log[l].op = LookupOf(call.adds[k].op)
               /\ call.log[l].id = call.adds[k].id)
                  => call.log[l].hit

\* A pass inserted a buffer and an image, and looked the buffer up again afterwards.
C30_Witness ==
    /\ call.op = "scene_pass"
    /\ \E k, m \in 1..Len(call.adds) :
          /\ call.adds[k].op = "add_bin"
          /\ call.adds[m].op = "add_image"
          /\ \E l \in 1..Len(call.log) :
                /\ l > call.adds[k].at
                /\ call.log[l] = [op |-> "get_bin", id |-> call.adds[k].id, hit |-> TRUE]

\* C31: the buffer returned for an inline buffer is the embedded blob followed by zero
\* bytes up to the next multiple of 4: its length is the smallest multiple of 4 not
\* below the blob's, its prefix is the blob, every byte after it is 0; the document
\* keeps its blob, and the buffer is cached under the id asked for.
C31_BlobPaddedTo4 ==
    call.op = "lookup_bin_from_asset" =>
        LET blob == call.self.blob[1]
            data == call.res.val.data
        IN /\ call.res.ok
           /\ Len(data) % 4 = 0
           /\ Len(data) >= Len(blob)
           /\ Len(data) < Len(blob) + 4
           /\ SubSeq(data, 1, Len(blob)) = blob
           /\ \A i \in (Len(blob) + 1)..Len(data) : data[i] = 0
           /\ subject.val = call.self
           /\ get_bin(call.bc, call.res.val.id) = Some(call.res.val)

\* A blob of a length that is no multiple of 4, ending in a byte that is not 0.
C31_Witness ==
    /\ call.op = "lookup_bin_from_asset"
    /\ Len(call.self.blob[1]) = 5
    /\ call.self.blob[1][5] = 7
    /\ Len(call.res.val.data) = 8

\* The image of the primitive's texture is a file the Asset holds, with a MIME type
\* that is neither image/jpeg nor image/png.
UnknownMime(prim, gltf, asset) ==
    /\ prim.texture # None
    /\ gltf.images[prim.texture[1].image].kind = "Uri"
    /\ get_file(asset, gltf.images[prim.texture[1].image].uri) # None
    /\ gltf.images[prim.texture[1].image].mime \notin {Some("image/jpeg"), Some("image/png")}

\* The pass looked the image of the Renderable's texture up in the Asset.
LookedUpInAsset(c, r) ==
    \E l \in 1..Len(c.log) :
        c.log[l] = [op |-> "get_image",
                    id |-> TextureTarget(PrimOf(r, c.self), get_gltf(c.self).val, c.self),
                    hit |-> FALSE]

\* C32: the update of a Renderable whose texture image is at hand but has an unknown
\* MIME type returns an error value that is neither NotYet nor swallowed, and the
\* program goes on, for an Incomplete Asset and for a Complete one.
C32_UnknownMimeIsError ==
    (call.op = "scene_pass" /\ get_gltf(call.self).ok) =>
        \A k \in 1..Len(call.updates) :
            LET r == subject.renderables[call.updates[k].index]
            IN  (/\ NodeOf(r, call.self).mesh # None
                 /\ UnknownMime(PrimOf(r, call.self), get_gltf(call.self).val, call.self)
                 /\ LookedUpInAsset(call, r))
                    => /\ ~call.updates[k].res.ok
                       /\ call.updates[k].res.err.kind \notin {"NotYet", "Panic"}
                       /\ ~subject.trapped

\* What holds: the lookup panics ("Unknown image format!"): no error value reaches
\* the caller and the program traps, whatever the Asset's state.
C32_UnknownMimePanics ==
    (call.op = "scene_pass" /\ get_gltf(call.self).ok) =>
        \A k \in 1..Len(call.updates) :
            LET r == subject.renderables[call.updates[k].index]
            IN  (/\ NodeOf(r, call.self).mesh # None
                 /\ UnknownMime(PrimOf(r, call.self), get_gltf(call.self).val, call.self)
                 /\ LookedUpInAsset(call, r))
                    => /\ call.updates[k].res = Panic("Unknown image format!")
                       /\ call.res = Panic("Unknown image format!")
                       /\ subject.trapped

\* The file of the source buffer of the Renderable's index accessor is in the Asset.
IndexFilePresent(r, asset) ==
    /\ PrimOf(r, asset).indices # None
    /\ PrimOf(r, asset).indices[1].view # None
    /\ LET buffer == get_gltf(asset).val.buffers[PrimOf(r, asset).indices[1].view[1].buffer]
       IN  buffer.kind = "Uri" /\ get_file(asset, buffer.uri) # None

EveryAttributeResolved(r) == \A a \in DOMAIN r.accessors : r.accessors[a].buffer # None

\* C33: a pass populates the index buffer of a Renderable whenever the file of the
\* accessor's source buffer is in the Asset, whether or not the pass's BufferCache holds
\* that buffer; so an error-free pass over a Complete Asset with every file leaves the
\* attributes, the index and the texture of its Renderables resolved.
C33_IndexFallsBackToAsset ==
    (call.op = "scene_pass" /\ get_gltf(call.self).ok /\ call.res.ok) =>
        \A k \in 1..Len(call.updates) :
            LET r == subject.renderables[call.updates[k].index]
            IN  (NodeOf(r, call.self).mesh # None /\ IndexFilePresent(r, call.self))
                    => /\ IndexResolved(r)
                       /\ is_complete(call.self)
                            => EveryAttributeResolved(r) /\ TextureAvailable(r)

\* What holds: an index buffer is populated only in a pass that found its source
\* buffer in the BufferCache, where an attribute lookup of the same pass has put it;
\* otherwise the update returns Ok and the index stays unresolved, pass after pass.
C33_IndexOnlyFromCache ==
    (call.op = "scene_pass" /\ get_gltf(call.self).ok) =>
        \A k \in 1..Len(call.updates) :
            LET i == call.updates[k].index
                r == subject.renderables[i]
            IN  (/\ NodeOf(r, call.self).mesh # None
                 /\ IndexFilePresent(r, call.self)
                 /\ i > Len(call.before) \/ ~IndexResolved(call.before[i])
                 /\ ~FoundInCache(call, IndexSourceId(r, get_gltf(call.self).val, call.self)))
                    => ~IndexResolved(r)

\* The Asset cached under n holds every file its Config names.
HoldsAllFiles(n) == Range(get_file_lists(cache[n].config)) \subseteq DOMAIN cache[n].files

\* One task only has inserted an Asset under n.
InsertedOnce(n) == Len(SelectSeq(events, LAMBDA e : e.kind = "New" /\ e.name = n)) = 1

\* C34 as stated: a Complete Asset holds every prompt file and every deferrable file of
\* its Config, in every reachable state, tasks of one name included.
C34_CompleteHoldsAllFiles ==
    \A n \in AssetNames : IsComplete(cache, n) => HoldsAllFiles(n)

\* C34 amended: a Complete Asset holds every file of its Config when a single task has
\* inserted an Asset under its name. (A second task of the name replaces the Asset by
\* an empty one holding its own Config, and the first task then sets that one Complete.)
C34_CompleteHoldsAllFilesAlone ==
    \A n \in AssetNames : (IsComplete(cache, n) /\ InsertedOnce(n)) => HoldsAllFiles(n)

\* An Asset with prompt and deferrable files is Complete, inserted by one task, while
\* another task works on another name.
C34_Witness ==
    \E n \in AssetNames :
        /\ IsComplete(cache, n)
        /\ InsertedOnce(n)
        /\ get_prompt_files(cache[n].config) # << >>
        /\ get_deferrable_files(cache[n].config) # << >>
        /\ \E m \in AssetNames \ {n} : cache[m] # NoAsset

\* C35: what a receiver's reads have returned, followed by what its queue holds, is
\* the sequence of the messages sent since it was registered: each once, in send
\* order, none sent before; a read returns the whole queue and leaves it empty.
C35_BusDelivery ==
    /\ subject.kind = "Bus" =>
          \A rx \in 1..Len(subject.val.rxers) :
              subject.got[rx] \o subject.val.rxers[rx]
                 = SubSeq(subject.sent, subject.since[rx] + 1, Len(subject.sent))
    /\ call.op = "read" =>
          /\ call.ret = call.self.rxers[call.rx]
          /\ subject.val.rxers[call.rx] = << >>
          /\ \A rx \in 1..Len(subject.val.rxers) :
                rx # call.rx => subject.val.rxers[rx] = call.self.rxers[rx]

\* A receiver registered after the first send has read twice, the second time one
\* message, while a receiver registered before the first send has them all queued.
C35_Witness ==
    /\ call.op = "read"
    /\ call.rx = 2
    /\ subject.since = <<0, 1>>
    /\ Len(subject.sent) = 3
    /\ Len(call.ret) = 1
    /\ Len(subject.got[2]) = 2
    /\ Len(subject.val.rxers[1]) = 3

\* C36: a pass for an asset, whatever its result, leaves every Renderable of another
\* asset as it was and where it was, and appends only Renderables of its own asset.
C36_OtherAssetsUntouched ==
    call.op = "scene_pass" =>
        /\ Len(subject.renderables) >= Len(call.before)
        /\ \A i \in 1..Len(call.before) :
              /\ subject.renderables[i].parent_asset = call.before[i].parent_asset
              /\ call.before[i].parent_asset # call.self.name
                    => subject.renderables[i] = call.before[i]
        /\ \A i \in (Len(call.before) + 1)..Len(subject.renderables) :
              subject.renderables[i].parent_asset = call.self.name
        /\ \A k \in 1..Len(call.updates) :
              subject.renderables[call.updates[k].index].parent_asset = call.self.name

\* A pass inserted a Renderable of its asset and resolved it, with an unresolved
\* Renderable of another asset in the registry.
C36_Witness ==
    /\ call.op = "scene_pass"
    /\ \E i \in (Len(call.before) + 1)..Len(subject.renderables) :
          IndexResolved(subject.renderables[i])
    /\ \E i \in 1..Len(call.before) :
          /\ call.before[i].parent_asset # call.self.name
          /\ ~IndexResolved(call.before[i])

GltfFetch == [kind |-> "gltf", index |-> 0]

\* The fetches the operation has issued so far.
Issued ==
    {GltfFetch}
       \cup (IF GltfFetch \in subject.answered
             THEN FetchesFor("buffer", subject.doc.buffers)
                     \cup FetchesFor("image", subject.doc.images)
             ELSE {})

\* A buffer or image fetch of the operation has failed.
SomeFetchFailed ==
    \E f \in Issued \ {GltfFetch} : f \notin subject.outstanding /\ f \notin subject.answered

\* NewModel is sent at most once, with nothing pending and the document received, and
\* never after a buffer or image fetch has failed.
SentOnceWhenDone ==
    /\ Len(subject.sent) <= 1
    /\ subject.sent # << >> => (subject.val.pending = 0 /\ GltfFetch \in subject.answered)
    /\ SomeFetchFailed => (subject.val.pending > 0 /\ subject.sent = << >>)

\* C37: in every state pending is the number of fetches issued and not answered
\* successfully; NewModel is sent at most once, with pending 0 and the document
\* received, and never after a buffer or image fetch has failed.
C37_PendingCountsFetches ==
    subject.kind = "Load" =>
        /\ subject.val.pending = Cardinality(Issued \ subject.answered)
        /\ SentOnceWhenDone

\* What holds: the same, in the states in which no handler has panicked; the handler
\* that panics on storing a response leaves pending one too high.
C37_PendingWhileRunning ==
    subject.kind = "Load" =>
        /\ subject.val.pending
              = Cardinality(Issued \ subject.answered) + (IF subject.trapped THEN 1 ELSE 0)
        /\ SentOnceWhenDone

\* C38: whatever the order of the responses, none fails to be stored, and the buffers
\* and images of the NewModel sent are those of the document's indices, each at the
\* position of its index.
C38_StoredAtIndex ==
    subject.kind = "Load" =>
        /\ ~subject.trapped
        /\ \A m \in 1..Len(subject.sent) :
              /\ \A f \in FetchesFor("buffer", subject.doc.buffers) :
                    /\ f.index + 1 <= Len(subject.sent[m].buffers)
                    /\ subject.sent[m].buffers[f.index + 1] = BufferBytes(f.index)
              /\ \A f \in FetchesFor("image", subject.doc.images) :
                    /\ f.index + 1 <= Len(subject.sent[m].images)
                    /\ subject.sent[m].images[f.index + 1] = ImageBytes_of(f.index, "ok")

\* What holds: a response is stored when its index is at most the number of responses
\* of its kind stored so far, and the handler panics otherwise; so a NewModel is sent
\* only when the responses of each kind came in index order and no source that is not
\* a uri precedes one that is, and then every element sits at its index.
C38_StoredInArrivalOrderOnly ==
    /\ (call.op = "ReceivedBuffer" /\ call.response # "err")
          => (subject.trapped <=> call.index > Len(call.self.buffers))
    /\ (call.op = "ReceivedImage" /\ call.response # "err")
          => (subject.trapped <=> call.index > Len(call.self.images))
    /\ subject.kind = "Load" =>
          \A m \in 1..Len(subject.sent) :
              /\ \A i \in 1..Len(subject.sent[m].buffers) :
                    subject.sent[m].buffers[i] = BufferBytes(i - 1)
              /\ \A i \in 1..Len(subject.sent[m].images) :
                    subject.sent[m].images[i] = ImageBytes_of(i - 1, "ok")

\* C39 as stated: while the calls made are within the counter's range, every call has
\* returned, and the Uids returned are 1, 2, 3, ... in call order: strictly increasing,
\* none twice, none the invalid Uid.
C39_EveryCallReturnsNext ==
    (subject.kind = "Uid" /\ subject.calls < UidModulus) =>
        /\ subject.returned = [i \in 1..subject.calls |-> i]
        /\ \A i \in 1..Len(subject.returned) : subject.returned[i] # Uid_invalid

\* C39 amended: while the calls made are within the counter's range, the Uids returned
\* are 1, 2, 3, ... in call order (strictly increasing, none twice, none the invalid
\* Uid), and every call has returned except, in a build with overflow checks, the
\* call that finds the counter at its highest value, which panics.
C39_UidsCountUp ==
    (subject.kind = "Uid" /\ subject.calls < UidModulus) =>
        /\ subject.returned = [i \in 1..Len(subject.returned) |-> i]
        /\ \A i \in 1..Len(subject.returned) : subject.returned[i] # Uid_invalid
        /\ \A i, j \in 1..Len(subject.returned) :
              i < j => subject.returned[i] < subject.returned[j]
        /\ Len(subject.returned) >= subject.calls - 1
        /\ Len(subject.returned) < subject.calls => subject.returned # << >>
                                                     /\ subject.calls = UidModulus - 1

\* The counter's highest value has been returned, by the last call in range.
C39_Witness ==
    /\ subject.kind = "Uid"
    /\ subject.calls = UidModulus - 1
    /\ Len(subject.returned) = subject.calls
    /\ call.res = Some(UidModulus - 1)

====
